---------------------------- MODULE Spec2Model ----------------------------
(***************************************************************************)
(* Real-time delivery and ephemeral-lifecycle subsystem of the chat        *)
(* backend: the per-user connection registry (websocket.rs,                *)
(* handle_socket), the protocol handler (websocket.rs, handle_ws_message), *)
(* the unread counters of the presence store (redis_client.rs), the HTTP   *)
(* receipt endpoints (chat.rs) and the expiration sweeper (expiration.rs). *)
(*                                                                         *)
(* Every `.await` of a handler is a point where other tasks run, so a      *)
(* handler is a sequence of actions, one per store call or registry        *)
(* lookup, and hpc[c] is the position of connection c's receive task.      *)
(***************************************************************************)
EXTENDS Integers, Sequences, FiniteSets

\* ------------------------------------------------------------------ bounds
NumUsers == 2
NumConns == 3
NumActive == 2
MaxMsgs == 2
MaxViewMsgs == 1
\* The period of the sweeper in clock ticks (60 s in the code), the last instant
\* of the clock and the largest expires_in_seconds of a frame, in clock ticks.
SweepInterval == 2
MaxTime == 5
MaxTtl == 2
\* The number of create_chat requests.
NumCalls == 2
\* The number of frames discarded and of failed store calls observed on one
\* connection.
MaxFaults == 2
\* The number of typing_start and typing_stop frames read on one connection.
MaxTyping == 2
\* The number of events a broadcast channel retains for a Receiver that has not
\* taken them yet (broadcast::channel(100) in the code).
ChannelCapacity == 1

Users == 1..NumUsers
Conns == 1..NumConns
\* The connections that take part in the specifications of the receipts and of
\* the sweeper; the others stay unopened there.
Active == 1..NumActive
MsgIds == 1..MaxMsgs
Rooms == {1}

VARIABLES
    connections,    \* the registry: user -> channel id, 0 when the user has no entry
    nextChan,       \* number of broadcast channels created so far
    pc,             \* position of handle_socket for each connection
    connUser,       \* the user_id of the path each connection was opened with
    tx,             \* the Sender clone a connection holds (channel id, 0 = none)
    rx,             \* the channel a connection's Receiver is subscribed to (0 = none)
    recvd,          \* the events handed to a connection's Receiver, in order
    presence,       \* presence store: user -> "none" | "online" | "offline"
    hpc,            \* position of the connection's receive task
    h,              \* locals of the handler the receive task is running
    messages,       \* messages table: sequence of rows, the id is the index
    message_reads,  \* message_reads table: (message, user) -> number of rows
    message_views,  \* message_views table: (message, user) -> number of rows
    viewed_at,      \* message_views.viewed_at: (message, user) -> time (0 = no row)
    saved_messages, \* saved_messages table: (message, user) -> number of rows
    chat_members,   \* chat_members table: room -> set of users
    chat_rooms,     \* chat_rooms table: sequence of rows, the id is the index
    cc,             \* the create_chat requests: position and locals of each
    typing,         \* presence store: typing:{room}:{user} markers
    obs,            \* observation: per connection, the frames and failures that
                    \* leave no trace in the program's state
    unread,         \* presence store: unread:{user}:{room} counters
    now,            \* the clock (NOW() of the store, Utc::now() of the server)
    ticker,         \* the time of the next tick of the sweeper's interval
    swpc,           \* position of the sweeper task
    swq,            \* the rows selected by the sweeper's current pass, still to do
    swcur,          \* the row the sweeper is processing (0 = none)
    swops,          \* observation: per message, the sweeper's soft-deletes and
                    \* media deletes so far
    media,          \* media table: set of rows [id, s3_key, thumb, expires_at]
    s3,             \* the objects the media store holds (set of keys)
    redis_lock,     \* the Mutex of the presence store client: the connection
                    \* whose task holds the guard, 0 when it is free
    forwarded       \* per connection, the number of events its send task has
                    \* taken from its Receiver

connVars  == <<connections, nextChan, pc, connUser, tx, rx, presence>>
viewVars  == <<message_views, viewed_at>>
chatVars  == <<chat_members, chat_rooms, cc>>
quietVars == <<chatVars, typing, obs>>
storeVars == <<messages, message_reads, viewVars, saved_messages, quietVars>>
sweepVars == <<now, ticker, swpc, swq, swcur, swops, media, s3>>
taskVars  == <<redis_lock, forwarded>>
vars == <<connections, nextChan, pc, connUser, tx, rx, recvd, presence, hpc, h,
          messages, message_reads, message_views, viewed_at, saved_messages,
          chat_members, chat_rooms, cc, typing, obs, unread, now, ticker, swpc, swq, swcur, swops, media, s3,
          redis_lock, forwarded>>

Keys == MsgIds \X Users

Min(S) == CHOOSE x \in S : \A y \in S : x <= y

\* The ids of the create_chat requests.
Calls == 1..NumCalls

\* A create_chat request that has not arrived.
NoCall == [pc |-> "idle", creator |-> 0, other |-> 0, room |-> 0, todo |-> <<>>,
           result |-> 0]

\* The row of the room every user is a member of.
GroupRoom == [is_group |-> TRUE, created_by |-> 1]

NoTyping == [u \in Users |-> [r \in Rooms |-> FALSE]]

\* Nothing observed on a connection: no frame discarded as undecodable, no
\* frame that is not text, no typing frame, no failed store call, no panic, no
\* frame that decoded to a variant no arm handles.
NoObs == [undecodable |-> 0, nontext |-> 0, typed |-> 0, failed |-> 0,
          panicked |-> FALSE, ignored |-> 0]

\* The locals of a handler: the message it is about, the members still to be
\* served by the fan-out loop, the member whose unread increment is pending.
\* `saved` is an observation no handler reads: whether a Save record of (message,
\* user) existed when the mark_viewed frame was read. `failed` is another: a
\* storage write of the handler has failed and the handler went on.
NoCtx == [m |-> 0, room |-> 0, todo |-> {}, member |-> 0, saved |-> FALSE,
          failed |-> FALSE]

\* ------------------------------------------------------------ the registry

\* connections.entry(user_id).or_insert_with(|| broadcast::channel(100).0):
\* one atomic step under the shard lock of the map.
EntryInsertAlways(reg, u, fresh) == [reg EXCEPT ![u] = fresh]
EntryOrInsert(reg, u, fresh) ==
    IF reg[u] # 0 THEN reg ELSE [reg EXCEPT ![u] = fresh]

\* connections.remove(&user_id)
RegistryRemoveNothing(reg, u) == reg
RegistryRemove(reg, u) == [reg EXCEPT ![u] = 0]

\* The connections whose Receiver is subscribed to channel ch.
Subscribers(ch) == {c \in Conns : rx[c] = ch}

\* conn.send(json) on channel ch: every subscribed Receiver gets the event; with
\* no Receiver the send returns Err and the value is dropped. A Receiver that is
\* behind by the capacity of the channel gets the event as well (its oldest one
\* is overwritten): the send never waits and never fails when the channel is full.
ChannelSendUnlessFull(log, ch, ev) ==
    IF \E c \in Conns : rx[c] = ch /\ Len(log[c]) - forwarded[c] >= ChannelCapacity
    THEN log
    ELSE [c \in Conns |-> IF rx[c] = ch THEN Append(log[c], ev) ELSE log[c]]
ChannelSend(log, ch, ev) ==
    [c \in Conns |-> IF rx[c] = ch THEN Append(log[c], ev) ELSE log[c]]

\* if let Some(conn) = connections.get(&user) { let _ = conn.send(json); }
Route(log, u, ev) ==
    IF connections[u] # 0 THEN ChannelSend(log, connections[u], ev) ELSE log

\* ------------------------------------------------------ connection lifecycle

\* handle_socket, get-or-create of the user's channel and clone of the Sender.
Register(c) ==
    /\ pc[c] = "idle"
    /\ LET u == connUser[c]
           reg == EntryOrInsert(connections, u, nextChan + 1)
       IN  /\ connections' = reg
           /\ nextChan' = IF reg[u] = nextChan + 1 THEN nextChan + 1 ELSE nextChan
           /\ tx' = [tx EXCEPT ![c] = reg[u]]
    /\ pc' = [pc EXCEPT ![c] = "registered"]
    /\ UNCHANGED <<connUser, rx, recvd, presence, hpc, h, storeVars, unread, sweepVars,
                   taskVars>>

\* let mut rx = tx.subscribe();
Subscribe(c) ==
    /\ pc[c] = "registered"
    /\ rx' = [rx EXCEPT ![c] = tx[c]]
    /\ pc' = [pc EXCEPT ![c] = "subscribed"]
    /\ UNCHANGED <<connections, nextChan, connUser, tx, recvd, presence, hpc, h,
                   storeVars, unread, sweepVars, taskVars>>

\* redis.set_user_online(user_id), then both tasks are spawned.
SetOnlineCall(c) ==
    /\ pc[c] = "subscribed"
    /\ presence' = [presence EXCEPT ![connUser[c]] = "online"]
    /\ pc' = [pc EXCEPT ![c] = "running"]
    /\ hpc' = [hpc EXCEPT ![c] = "recv"]
    /\ UNCHANGED <<connections, nextChan, connUser, tx, rx, recvd, h, storeVars,
                   unread, sweepVars, forwarded>>

\* set_user_online with the lock taken and the guard dropped in the same step.
SetOnline(c) == SetOnlineCall(c) /\ UNCHANGED redis_lock

\* The receive loop ends: receiver.next() gave None, an error or a frame that is
\* not a text frame. select! then aborts the send task, whose Receiver is dropped.
RecvTaskEnd(c) ==
    /\ pc[c] = "running"
    /\ hpc[c] = "recv"
    /\ pc' = [pc EXCEPT ![c] = "cleanup"]
    /\ hpc' = [hpc EXCEPT ![c] = "ended"]
    /\ rx' = [rx EXCEPT ![c] = 0]
    /\ UNCHANGED <<connections, nextChan, connUser, tx, recvd, presence, h,
                   storeVars, unread, sweepVars, taskVars>>

\* The send task ends: forwarding an event to the socket failed. Its Receiver is
\* dropped, and select! aborts the receive task, which is cancelled at the await
\* it is suspended in: a handler in flight is dropped where it stands.
SendTaskEnd(c) ==
    /\ pc[c] = "running"
    /\ recvd[c] # <<>>
    /\ pc' = [pc EXCEPT ![c] = "cleanup"]
    /\ hpc' = [hpc EXCEPT ![c] = IF hpc[c] = "recv" THEN "ended" ELSE "aborted"]
    /\ h' = [h EXCEPT ![c] = NoCtx]
    /\ rx' = [rx EXCEPT ![c] = 0]
    /\ UNCHANGED <<connections, nextChan, connUser, tx, recvd, presence,
                   storeVars, unread, sweepVars, taskVars>>

\* state.connections.remove(&user_id)
Remove(c) ==
    /\ pc[c] = "cleanup"
    /\ connections' = RegistryRemove(connections, connUser[c])
    /\ pc' = [pc EXCEPT ![c] = "removed"]
    /\ UNCHANGED <<nextChan, connUser, tx, rx, recvd, presence, hpc, h, storeVars,
                   unread, sweepVars, taskVars>>

\* redis.set_user_offline(user_id); handle_socket returns and drops its Sender.
SetOfflineCall(c) ==
    /\ pc[c] = "removed"
    /\ presence' = [presence EXCEPT ![connUser[c]] = "offline"]
    /\ tx' = [tx EXCEPT ![c] = 0]
    /\ pc' = [pc EXCEPT ![c] = "closed"]
    /\ UNCHANGED <<connections, nextChan, connUser, rx, recvd, hpc, h, storeVars,
                   unread, sweepVars, forwarded>>

\* set_user_offline with the lock taken and the guard dropped in the same step.
SetOffline(c) == SetOfflineCall(c) /\ UNCHANGED redis_lock

\* -------------------------------------------------------- the message store

\* SELECT user_id FROM chat_members WHERE chat_room_id = $1
MembersOf(room) == chat_members[room]

\* INSERT INTO messages (...) VALUES (...) RETURNING id: the new row. The frame's
\* optional fields are sets ({} for None, {x} for Some(x)), media_url is <<>> for
\* None; expires_at = expires_in_seconds.map(|s| now + s), 0 standing for NULL.
NewMessageRow(u, f) ==
    [room       |-> f.chat_room_id,
     sender     |-> u,
     view_once  |-> f.view_once,
     expires_at |-> IF f.expires_in_seconds = {} THEN 0
                    ELSE now + (CHOOSE t \in f.expires_in_seconds : TRUE),
     media_url  |-> f.media_url,
     deleted    |-> FALSE]

\* UPDATE messages SET deleted_at = NOW() WHERE id = $1
SoftDeleteNothing(msgs, m) == msgs
SoftDelete(msgs, m) == [msgs EXCEPT ![m].deleted = TRUE]

\* get_messages: SELECT ... WHERE chat_room_id = $1 AND deleted_at IS NULL
GetMessagesAll(room) ==
    {m \in 1..Len(messages) : messages[m].room = room}
get_messages(room) ==
    {m \in 1..Len(messages) : messages[m].room = room /\ ~messages[m].deleted}

\* get_user_chats, last_message: ... AND deleted_at IS NULL ORDER BY created_at
\* DESC LIMIT 1 (ids grow with created_at); 0 when the room has no live message.
LastOf(S) == IF S = {} THEN 0 ELSE CHOOSE m \in S : \A k \in S : k <= m
last_message(room) == LastOf(get_messages(room))

\* ------------------------------------------------------- the presence store

\* increment_unread: INCR unread:{user}:{room}
IncrementUnreadTwice(unr, u, room) == [unr EXCEPT ![u][room] = @ + 2]
increment_unread(unr, u, room) == [unr EXCEPT ![u][room] = @ + 1]

\* clear_unread: DEL unread:{user}:{room}; get_unread_count reads a missing key as 0
clear_unread(unr, u, room) == [unr EXCEPT ![u][room] = 0]

\* ------------------------------------------------- handler of send_message

\* The receive task is suspended in receiver.next(): the next frame can be read.
AwaitingFrameAnytime(c) == pc[c] = "running" /\ hpc[c] \notin {"none", "ended", "aborted"}
AwaitingFrame(c) == pc[c] = "running" /\ hpc[c] = "recv"

NewMessageEvent(m) == <<"new_message", m, messages[m].sender>>

\* The fan-out loop has served its last member: handle_ws_message returns.
AfterMember(c, rest) ==
    IF rest = {} THEN /\ hpc' = [hpc EXCEPT ![c] = "recv"]
                      /\ h' = [h EXCEPT ![c] = NoCtx]
    ELSE /\ hpc' = [hpc EXCEPT ![c] = "sm_fanout"]
         /\ h' = [h EXCEPT ![c] = [@ EXCEPT !.todo = rest, !.member = 0]]

\* A send_message frame is read and the message row inserted.
RecvSendMessage(c, f, limit) ==
    /\ AwaitingFrame(c)
    /\ Len(messages) < limit
    /\ messages' = Append(messages, NewMessageRow(connUser[c], f))
    /\ hpc' = [hpc EXCEPT ![c] = "sm_members"]
    /\ h' = [h EXCEPT ![c] = [NoCtx EXCEPT !.m = Len(messages) + 1]]
    /\ UNCHANGED <<connVars, recvd, message_reads, viewVars, saved_messages,
                   quietVars, unread, sweepVars, taskVars>>

\* SELECT username of the sender, then SELECT the members of the room.
SmMembers(c) ==
    /\ pc[c] = "running"
    /\ hpc[c] = "sm_members"
    /\ LET members == MembersOf(messages[h[c].m].room)
       IN  IF members = {}
           THEN /\ hpc' = [hpc EXCEPT ![c] = "recv"]
                /\ h' = [h EXCEPT ![c] = NoCtx]
           ELSE /\ hpc' = [hpc EXCEPT ![c] = "sm_fanout"]
                /\ h' = [h EXCEPT ![c] = [@ EXCEPT !.todo = members]]
    /\ UNCHANGED <<connVars, recvd, storeVars, unread, sweepVars, taskVars>>

\* One turn of `for member in members`: with a registry entry the event is sent
\* on the member's channel (under the map's guard); without one the handler goes
\* on to lock the presence store and increment the member's unread counter.
SmFanout(c, member) ==
    /\ pc[c] = "running"
    /\ hpc[c] = "sm_fanout"
    /\ member \in h[c].todo
    /\ IF connections[member] # 0
       THEN /\ recvd' = Route(recvd, member, NewMessageEvent(h[c].m))
            /\ AfterMember(c, h[c].todo \ {member})
       ELSE /\ hpc' = [hpc EXCEPT ![c] = "sm_incr"]
            /\ h' = [h EXCEPT ![c] = [@ EXCEPT !.todo = @ \ {member},
                                               !.member = member]]
            /\ UNCHANGED recvd
    /\ UNCHANGED <<connVars, storeVars, unread, sweepVars, taskVars>>

\* redis.lock().await; increment_unread(member, chat_room_id).await
SmIncrCall(c) ==
    /\ pc[c] = "running"
    /\ hpc[c] = "sm_incr"
    /\ unread' = increment_unread(unread, h[c].member, messages[h[c].m].room)
    /\ AfterMember(c, h[c].todo)
    /\ UNCHANGED <<connVars, recvd, storeVars, sweepVars, forwarded>>

\* increment_unread with the lock taken and the guard dropped in the same step.
SmIncr(c) == SmIncrCall(c) /\ UNCHANGED redis_lock

\* ---------------------------------------------------- handler of mark_read

\* INSERT INTO message_reads|message_views|saved_messages (message_id, user_id)
\* ... ON CONFLICT DO NOTHING: the table after the insert. With RETURNING, a row
\* comes back exactly when one was inserted.
InsertAlways(tbl, k) == [tbl EXCEPT ![k] = @ + 1]
InsertOnConflictDoNothing(tbl, k) ==
    IF tbl[k] > 0 THEN tbl ELSE [tbl EXCEPT ![k] = 1]
Returning(tbl, k) == tbl[k] = 0
\* The column viewed_at (DEFAULT NOW()) of the row, set when the row is inserted.
InsertedAt(tbl, col, k) == IF Returning(tbl, k) THEN [col EXCEPT ![k] = now] ELSE col

MessageReadEvent(m, u) == <<"message_read", m, u>>

\* A mark_read frame is read and the read receipt inserted; when a row comes
\* back, the sender and the room of the message are selected.
RecvMarkRead(c, m) ==
    /\ AwaitingFrame(c)
    /\ m \in 1..Len(messages)
    /\ LET k == <<m, connUser[c]>>
       IN  /\ message_reads' = InsertOnConflictDoNothing(message_reads, k)
           /\ IF Returning(message_reads, k)
              THEN /\ hpc' = [hpc EXCEPT ![c] = "mr_clear"]
                   /\ h' = [h EXCEPT ![c] = [NoCtx EXCEPT !.m = m]]
              ELSE UNCHANGED <<hpc, h>>
    /\ UNCHANGED <<connVars, recvd, messages, viewVars, saved_messages,
                   quietVars, unread, sweepVars, taskVars>>

\* redis.lock().await; clear_unread(user_id, msg.chat_room_id).await
MrClearCall(c) ==
    /\ pc[c] = "running"
    /\ hpc[c] = "mr_clear"
    /\ unread' = clear_unread(unread, connUser[c], messages[h[c].m].room)
    /\ hpc' = [hpc EXCEPT ![c] = "mr_notify"]
    /\ UNCHANGED <<connVars, recvd, h, storeVars, sweepVars, forwarded>>

\* clear_unread with the lock taken and the guard dropped in the same step.
MrClear(c) == MrClearCall(c) /\ UNCHANGED redis_lock

\* message_read is sent to the channel of the message's sender, if it has one.
MrNotify(c) ==
    /\ pc[c] = "running"
    /\ hpc[c] = "mr_notify"
    /\ recvd' = Route(recvd, messages[h[c].m].sender,
                      MessageReadEvent(h[c].m, connUser[c]))
    /\ hpc' = [hpc EXCEPT ![c] = "recv"]
    /\ h' = [h EXCEPT ![c] = NoCtx]
    /\ UNCHANGED <<connVars, storeVars, unread, sweepVars, taskVars>>

\* -------------------------------------------------- handler of mark_viewed

MessageViewedAsRead(m, u) == <<"message_read", m, u>>
MessageViewedEvent(m, u) == <<"message_viewed", m, u>>
MessageExpiredEvent(m) == <<"message_expired", m, 0>>

\* A mark_viewed frame is read and the view record inserted; when a row comes
\* back, the sender and the view_once flag of the message are selected.
RecvMarkViewed(c, m) ==
    /\ AwaitingFrame(c)
    /\ m \in 1..Len(messages)
    /\ LET k == <<m, connUser[c]>>
       IN  /\ message_views' = InsertOnConflictDoNothing(message_views, k)
           /\ viewed_at' = InsertedAt(message_views, viewed_at, k)
           /\ IF Returning(message_views, k)
              THEN /\ hpc' = [hpc EXCEPT ![c] = "mv_notify"]
                   /\ h' = [h EXCEPT ![c] = [NoCtx EXCEPT !.m = m,
                                                 !.saved = saved_messages[k] > 0]]
              ELSE UNCHANGED <<hpc, h>>
    /\ UNCHANGED <<connVars, recvd, messages, message_reads, saved_messages,
                   quietVars, unread, sweepVars, taskVars>>

\* message_viewed is sent to the channel of the message's sender, if it has
\* one; a view_once message then goes on to its deletion.
MvNotify(c) ==
    /\ pc[c] = "running"
    /\ hpc[c] = "mv_notify"
    /\ recvd' = Route(recvd, messages[h[c].m].sender,
                      MessageViewedEvent(h[c].m, connUser[c]))
    /\ IF messages[h[c].m].view_once
       THEN /\ hpc' = [hpc EXCEPT ![c] = "mv_delete"]
            /\ UNCHANGED h
       ELSE /\ hpc' = [hpc EXCEPT ![c] = "recv"]
            /\ h' = [h EXCEPT ![c] = NoCtx]
    /\ UNCHANGED <<connVars, storeVars, unread, sweepVars, taskVars>>

\* UPDATE messages SET deleted_at = NOW() WHERE id = $1, for a view_once message
\* whatever the saved_messages table holds.
MvDelete(c) ==
    /\ pc[c] = "running"
    /\ hpc[c] = "mv_delete"
    /\ messages' = SoftDelete(messages, h[c].m)
    /\ hpc' = [hpc EXCEPT ![c] = "mv_members"]
    /\ UNCHANGED <<connVars, recvd, h, message_reads, viewVars, saved_messages,
                   quietVars, unread, sweepVars, taskVars>>

\* SELECT the members of the room of the message.
MvMembers(c) ==
    /\ pc[c] = "running"
    /\ hpc[c] = "mv_members"
    /\ LET members == MembersOf(messages[h[c].m].room)
       IN  IF members = {}
           THEN /\ hpc' = [hpc EXCEPT ![c] = "recv"]
                /\ h' = [h EXCEPT ![c] = NoCtx]
           ELSE /\ hpc' = [hpc EXCEPT ![c] = "mv_fanout"]
                /\ h' = [h EXCEPT ![c] = [@ EXCEPT !.todo = members]]
    /\ UNCHANGED <<connVars, recvd, storeVars, unread, sweepVars, taskVars>>

\* One turn of the fan-out of message_expired: members without a registry entry
\* are skipped.
MvFanout(c, member) ==
    /\ pc[c] = "running"
    /\ hpc[c] = "mv_fanout"
    /\ member \in h[c].todo
    /\ recvd' = Route(recvd, member, MessageExpiredEvent(h[c].m))
    /\ IF h[c].todo = {member}
       THEN /\ hpc' = [hpc EXCEPT ![c] = "recv"]
            /\ h' = [h EXCEPT ![c] = NoCtx]
       ELSE /\ UNCHANGED hpc
            /\ h' = [h EXCEPT ![c] = [@ EXCEPT !.todo = @ \ {member}]]
    /\ UNCHANGED <<connVars, storeVars, unread, sweepVars, taskVars>>

\* ------------------------------------------------- HTTP endpoints of chat.rs

\* POST /api/users/:user_id/messages/:message_id/view
mark_message_viewed(u, m) ==
    /\ m \in 1..Len(messages)
    /\ message_views' = InsertOnConflictDoNothing(message_views, <<m, u>>)
    /\ viewed_at' = InsertedAt(message_views, viewed_at, <<m, u>>)
    /\ UNCHANGED <<connVars, recvd, hpc, h, messages, message_reads, saved_messages,
                   quietVars, unread, sweepVars, taskVars>>

\* POST /api/users/:user_id/messages/:message_id/save
save_message(u, m) ==
    /\ m \in 1..Len(messages)
    /\ saved_messages' = InsertOnConflictDoNothing(saved_messages, <<m, u>>)
    /\ UNCHANGED <<connVars, recvd, hpc, h, messages, message_reads, viewVars,
                   quietVars, unread, sweepVars, taskVars>>

\* DELETE /api/users/:user_id/messages/:message_id/unsave
unsave_message(u, m) ==
    /\ m \in 1..Len(messages)
    /\ saved_messages' = [saved_messages EXCEPT ![<<m, u>>] = 0]
    /\ UNCHANGED <<connVars, recvd, hpc, h, messages, message_reads, viewVars,
                   quietVars, unread, sweepVars, taskVars>>

\* ------------------------------------------ frames that are not protocol events

\* One more discarded frame or failed call can be observed on connection c.
CanObserve(c) ==
    obs[c].undecodable + obs[c].nontext + obs[c].failed < MaxFaults

ErrorEvent == <<"error", 0, 0>>

\* A text frame is read that serde_json cannot decode as a WsMessage: the Err arm
\* logs "Failed to parse WsMessage" and the loop goes on to the next frame.
RecvUndecodable(c) ==
    /\ AwaitingFrame(c)
    /\ CanObserve(c)
    /\ obs' = [obs EXCEPT ![c].undecodable = @ + 1]
    /\ UNCHANGED <<connVars, recvd, hpc, h, messages, message_reads, viewVars,
                   saved_messages, chatVars, typing, unread, sweepVars, taskVars>>

\* A frame is read that is not a text frame (binary, ping, pong, close): the
\* pattern Some(Ok(Message::Text(text))) of the while let does not match, the
\* loop and the receive task end, and select! aborts the send task.
RecvNonText(c) ==
    /\ AwaitingFrame(c)
    /\ CanObserve(c)
    /\ obs' = [obs EXCEPT ![c].nontext = @ + 1]
    /\ pc' = [pc EXCEPT ![c] = "cleanup"]
    /\ hpc' = [hpc EXCEPT ![c] = "ended"]
    /\ rx' = [rx EXCEPT ![c] = 0]
    /\ UNCHANGED <<connections, nextChan, connUser, tx, recvd, presence, h,
                   messages, message_reads, viewVars, saved_messages, chatVars,
                   typing, unread, sweepVars, taskVars>>

\* ---------------------------------------- handlers of typing_start, typing_stop

\* set_typing: SET typing:{room}:{user} "1" EX 5; clear_typing: DEL of the key
set_typing(typ, u, room) == [typ EXCEPT ![u][room] = TRUE]
clear_typing(typ, u, room) == [typ EXCEPT ![u][room] = FALSE]

UserTypingEvent(room, u) == <<"user_typing", room, u>>
UserStoppedTypingEvent(room, u) == <<"user_stopped_typing", room, u>>

\* for member in members { if let Some(conn) = connections.get(..) { conn.send } }
\* with no await in the loop: every Receiver subscribed to the registry channel
\* of a member gets the event.
FanoutAll(log, members, ev) ==
    [d \in Conns |->
        IF \E u \in members : connections[u] # 0 /\ rx[d] = connections[u]
        THEN Append(log[d], ev) ELSE log[d]]

\* A store call of connection c's handler fails and is observed.
Fails(c) ==
    /\ CanObserve(c)
    /\ obs' = [obs EXCEPT ![c].failed = @ + 1]

\* The receive task panics: the task ends, select! aborts the send task.
Panics(c) ==
    /\ obs' = [obs EXCEPT ![c].failed = @ + 1, ![c].panicked = TRUE]
    /\ pc' = [pc EXCEPT ![c] = "cleanup"]
    /\ hpc' = [hpc EXCEPT ![c] = "ended"]
    /\ h' = [h EXCEPT ![c] = NoCtx]
    /\ rx' = [rx EXCEPT ![c] = 0]

\* A typing_start or typing_stop frame is read; the presence store is locked and
\* the marker written (set = TRUE) or cleared; the result of the call is dropped
\* (let _ =), so the handler goes on whether it succeeded (ok) or not.
RecvTyping(c, room, set, ok) ==
    /\ AwaitingFrame(c)
    /\ obs[c].typed < MaxTyping
    /\ IF ok THEN /\ typing' = IF set THEN set_typing(typing, connUser[c], room)
                               ELSE clear_typing(typing, connUser[c], room)
                  /\ obs' = [obs EXCEPT ![c].typed = @ + 1]
       ELSE /\ CanObserve(c)
            /\ obs' = [obs EXCEPT ![c].typed = @ + 1, ![c].failed = @ + 1]
            /\ UNCHANGED typing
    /\ hpc' = [hpc EXCEPT ![c] = IF set THEN "ts_fanout" ELSE "tp_fanout"]
    /\ h' = [h EXCEPT ![c] = [NoCtx EXCEPT !.room = room, !.failed = ~ok]]
    /\ UNCHANGED <<connVars, recvd, messages, message_reads, viewVars,
                   saved_messages, chatVars, unread, sweepVars, taskVars>>

\* typing_start: SELECT username, SELECT members, user_typing to every member
\* with a registry entry.
TsFanout(c) ==
    /\ pc[c] = "running"
    /\ hpc[c] = "ts_fanout"
    /\ recvd' = FanoutAll(recvd, MembersOf(h[c].room),
                          UserTypingEvent(h[c].room, connUser[c]))
    /\ hpc' = [hpc EXCEPT ![c] = "recv"]
    /\ h' = [h EXCEPT ![c] = NoCtx]
    /\ UNCHANGED <<connVars, storeVars, unread, sweepVars, taskVars>>

\* typing_start: SELECT username fails (if let Ok(sender)): the handler returns.
TsUserFail(c) ==
    /\ pc[c] = "running"
    /\ hpc[c] = "ts_fanout"
    /\ Fails(c)
    /\ hpc' = [hpc EXCEPT ![c] = "recv"]
    /\ h' = [h EXCEPT ![c] = NoCtx]
    /\ UNCHANGED <<connVars, recvd, messages, message_reads, viewVars,
                   saved_messages, chatVars, typing, unread, sweepVars, taskVars>>

\* typing_stop: SELECT members, user_stopped_typing to every member with a
\* registry entry.
TpFanout(c) ==
    /\ pc[c] = "running"
    /\ hpc[c] = "tp_fanout"
    /\ recvd' = FanoutAll(recvd, MembersOf(h[c].room),
                          UserStoppedTypingEvent(h[c].room, connUser[c]))
    /\ hpc' = [hpc EXCEPT ![c] = "recv"]
    /\ h' = [h EXCEPT ![c] = NoCtx]
    /\ UNCHANGED <<connVars, storeVars, unread, sweepVars, taskVars>>

\* typing_start, typing_stop: SELECT members fails and .unwrap() panics.
TypingMembersFail(c) ==
    /\ pc[c] = "running"
    /\ hpc[c] \in {"ts_fanout", "tp_fanout"}
    /\ Panics(c)
    /\ UNCHANGED <<connections, nextChan, connUser, tx, recvd, presence, messages,
                   message_reads, viewVars, saved_messages, chatVars, typing,
                   unread, sweepVars, taskVars>>

\* ------------------------------------------- failures of the other handlers

\* send_message: the INSERT fails; "Failed to insert message" is logged.
SmInsertFail(c) ==
    /\ AwaitingFrame(c)
    /\ Fails(c)
    /\ UNCHANGED <<connVars, recvd, hpc, h, messages, message_reads, viewVars,
                   saved_messages, chatVars, typing, unread, sweepVars, taskVars>>

\* send_message: SELECT username or SELECT members fails; the failure is logged
\* and the handler returns with the row inserted and nothing sent.
SmMembersFail(c) ==
    /\ pc[c] = "running"
    /\ hpc[c] = "sm_members"
    /\ Fails(c)
    /\ hpc' = [hpc EXCEPT ![c] = "recv"]
    /\ h' = [h EXCEPT ![c] = NoCtx]
    /\ UNCHANGED <<connVars, recvd, messages, message_reads, viewVars,
                   saved_messages, chatVars, typing, unread, sweepVars, taskVars>>

\* send_message: increment_unread fails; its result is dropped (let _ =).
SmIncrFail(c) ==
    /\ pc[c] = "running"
    /\ hpc[c] = "sm_incr"
    /\ Fails(c)
    /\ AfterMember(c, h[c].todo)
    /\ UNCHANGED <<connVars, recvd, messages, message_reads, viewVars,
                   saved_messages, chatVars, typing, unread, sweepVars, taskVars>>

\* mark_read, mark_viewed: the INSERT of the receipt fails and is logged.
ReceiptInsertFail(c) ==
    /\ AwaitingFrame(c)
    /\ Len(messages) > 0
    /\ Fails(c)
    /\ UNCHANGED <<connVars, recvd, hpc, h, messages, message_reads, viewVars,
                   saved_messages, chatVars, typing, unread, sweepVars, taskVars>>

\* mark_read: clear_unread fails; its result is dropped and the sender notified.
MrClearFail(c) ==
    /\ pc[c] = "running"
    /\ hpc[c] = "mr_clear"
    /\ Fails(c)
    /\ hpc' = [hpc EXCEPT ![c] = "mr_notify"]
    /\ UNCHANGED <<connVars, recvd, h, messages, message_reads, viewVars,
                   saved_messages, chatVars, typing, unread, sweepVars, taskVars>>

\* mark_viewed: the UPDATE that soft-deletes the view_once message fails; its
\* result is dropped (let _ =) and the handler goes on to the fan-out.
MvDeleteFail(c) ==
    /\ pc[c] = "running"
    /\ hpc[c] = "mv_delete"
    /\ Fails(c)
    /\ hpc' = [hpc EXCEPT ![c] = "mv_members"]
    /\ h' = [h EXCEPT ![c] = [@ EXCEPT !.failed = TRUE]]
    /\ UNCHANGED <<connVars, recvd, messages, message_reads, viewVars,
                   saved_messages, chatVars, typing, unread, sweepVars, taskVars>>

\* mark_viewed: SELECT members fails (if let Ok(members)): nothing is fanned out.
MvMembersFail(c) ==
    /\ pc[c] = "running"
    /\ hpc[c] = "mv_members"
    /\ Fails(c)
    /\ hpc' = [hpc EXCEPT ![c] = "recv"]
    /\ h' = [h EXCEPT ![c] = NoCtx]
    /\ UNCHANGED <<connVars, recvd, messages, message_reads, viewVars,
                   saved_messages, chatVars, typing, unread, sweepVars, taskVars>>

\* ------------------------------------------------------------- create_chat

\* find_direct_chat(a, b), a function of the database: the id of a room that is
\* not a group and has both users as members, 0 (NULL) when there is none.
find_direct_chat(a, b) ==
    LET found == {r \in 1..Len(chat_rooms) :
                     ~chat_rooms[r].is_group /\ {a, b} \subseteq chat_members[r]}
    IN  IF found = {} THEN 0 ELSE CHOOSE r \in found : \A q \in found : r <= q

\* POST /api/chats with is_group = false and member_ids = [other] arrives.
CcRequest(k, creator, other) ==
    /\ cc[k].pc = "idle"
    /\ cc' = [cc EXCEPT ![k] = [NoCall EXCEPT !.pc = "find", !.creator = creator,
                                               !.other = other]]
    /\ UNCHANGED <<connVars, recvd, hpc, h, messages, message_reads, viewVars,
                   saved_messages, chat_members, chat_rooms, typing, obs, unread,
                   sweepVars, taskVars>>

\* SELECT find_direct_chat(creator, other): an existing room is returned (after
\* the reads of its members and of its row), otherwise the request goes on.
CcFind(k) ==
    /\ cc[k].pc = "find"
    /\ LET chat_id == find_direct_chat(cc[k].creator, cc[k].other)
       IN  cc' = [cc EXCEPT ![k] = IF chat_id # 0
                                   THEN [@ EXCEPT !.pc = "done", !.result = chat_id]
                                   ELSE [@ EXCEPT !.pc = "insert"]]
    /\ UNCHANGED <<connVars, recvd, hpc, h, messages, message_reads, viewVars,
                   saved_messages, chat_members, chat_rooms, typing, obs, unread,
                   sweepVars, taskVars>>

\* INSERT INTO chat_rooms (is_group, name, created_by) ... RETURNING id;
\* all_member_ids = member_ids followed by the creator.
CcInsertRoom(k) ==
    /\ cc[k].pc = "insert"
    /\ chat_rooms' = Append(chat_rooms, [is_group |-> FALSE,
                                         created_by |-> cc[k].creator])
    /\ chat_members' = Append(chat_members, {})
    /\ cc' = [cc EXCEPT ![k] = [@ EXCEPT !.pc = "members",
                                         !.room = Len(chat_rooms) + 1,
                                         !.todo = <<cc[k].other, cc[k].creator>>]]
    /\ UNCHANGED <<connVars, recvd, hpc, h, messages, message_reads, viewVars,
                   saved_messages, typing, obs, unread, sweepVars, taskVars>>

\* One turn of `for member_id in all_member_ids`: INSERT INTO chat_members; after
\* the last one the members are read and the new room is returned.
CcAddMember(k) ==
    /\ cc[k].pc = "members"
    /\ chat_members' = [chat_members EXCEPT ![cc[k].room] = @ \cup {Head(cc[k].todo)}]
    /\ cc' = [cc EXCEPT ![k] = IF Tail(cc[k].todo) = <<>>
                                THEN [@ EXCEPT !.pc = "done", !.todo = <<>>,
                                               !.result = cc[k].room]
                                ELSE [@ EXCEPT !.todo = Tail(@)]]
    /\ UNCHANGED <<connVars, recvd, hpc, h, messages, message_reads, viewVars,
                   saved_messages, chat_rooms, typing, obs, unread, sweepVars,
                   taskVars>>

\* ------------------------------------------------------------- the sweeper

\* A URL is the sequence of its pieces; S3Sep is the piece ".s3.amazonaws.com/".
S3Sep == ".s3.amazonaws.com/"
S3Url(key) == <<"https://bucket", S3Sep>> \o key
PublicUrl(key) == <<"https://cdn.example", "/">> \o key

\* The object that upload_image stored when it gave out this URL: both forms of
\* URL end with the object's key.
ObjectOf(url) == SubSeq(url, 3, Len(url))

\* The least index i >= from with url[i] = S3Sep, 0 when there is none.
NextSep(url, from) ==
    LET I == {i \in from..Len(url) : url[i] = S3Sep}
    IN  IF I = {} THEN 0 ELSE CHOOSE i \in I : \A j \in I : i <= j

\* extract_s3_key: url.split(".s3.amazonaws.com/").nth(1), the piece between the
\* first separator and the next one (or the end); {} stands for None.
extract_s3_key(url) ==
    LET i == NextSep(url, 1)
    IN  IF i = 0 THEN {}
        ELSE LET j == NextSep(url, i + 1)
             IN  {SubSeq(url, i + 1, IF j = 0 THEN Len(url) ELSE j - 1)}

\* MediaService::delete_media: DeleteObject of the key; deleting a missing object
\* succeeds.
delete_media(objects, key) == objects \ {key}

\* cleanup_expired_messages, its SELECT: expires_at IS NOT NULL AND expires_at <
\* NOW() AND deleted_at IS NULL.
ExpiredMessagesLate ==
    {m \in 1..Len(messages) :
        /\ messages[m].expires_at # 0
        /\ messages[m].expires_at + 1 < now
        /\ ~messages[m].deleted}
ExpiredMessages ==
    {m \in 1..Len(messages) :
        /\ messages[m].expires_at # 0
        /\ messages[m].expires_at < now
        /\ ~messages[m].deleted}

\* cleanup_expired_media, its SELECT: expires_at IS NOT NULL AND expires_at < NOW()
ExpiredMedia == {row \in media : row.expires_at # 0 /\ row.expires_at < now}

NoOps == [m \in MsgIds |-> [upd |-> 0, del |-> 0]]

\* The state of the sweeper and of the media store at the start of the process:
\* the interval's first tick is immediate; the media table and the media store
\* hold what earlier uploads left there.
SweeperIdle ==
    /\ now = 1
    /\ ticker = 1
    /\ swpc = "sleep"
    /\ swq = {}
    /\ swcur = 0
    /\ swops = NoOps
    /\ media = {[id |-> 1, s3_key |-> <<"m1">>, thumbnail_s3_key |-> {<<"m1t">>},
                 expires_at |-> 2]}
    /\ s3 = {<<"k1">>, <<"m1">>, <<"m1t">>}

\* ticker.tick().await returns; cleanup_expired_messages selects its rows.
SwTick ==
    /\ swpc = "sleep"
    /\ now >= ticker
    /\ ticker' = ticker + SweepInterval
    /\ swq' = ExpiredMessages
    /\ swpc' = "msgs"
    /\ UNCHANGED <<connVars, recvd, hpc, h, storeVars, unread, now, swcur, swops,
                   media, s3, taskVars>>

\* for msg in expired_messages: UPDATE messages SET deleted_at = NOW()
SwMsgUpdate(m) ==
    /\ swpc = "msgs"
    /\ m \in swq
    /\ messages' = SoftDelete(messages, m)
    /\ swops' = [swops EXCEPT ![m].upd = @ + 1]
    /\ IF extract_s3_key(messages[m].media_url) # {}
       THEN /\ swpc' = "msg_media"
            /\ swcur' = m
            /\ UNCHANGED swq
       ELSE /\ swq' = swq \ {m}
            /\ UNCHANGED <<swpc, swcur>>
    /\ UNCHANGED <<connVars, recvd, hpc, h, message_reads, viewVars,
                   saved_messages, quietVars, unread, now, ticker, media, s3,
                   taskVars>>

\* if let Some(s3_key) = extract_s3_key(media_url) { delete_media(&s3_key) }
SwMsgMedia ==
    /\ swpc = "msg_media"
    /\ LET key == CHOOSE k \in extract_s3_key(messages[swcur].media_url) : TRUE
       IN  s3' = delete_media(s3, key)
    /\ swops' = [swops EXCEPT ![swcur].del = @ + 1]
    /\ swq' = swq \ {swcur}
    /\ swcur' = 0
    /\ swpc' = "msgs"
    /\ UNCHANGED <<connVars, recvd, hpc, h, storeVars, unread, now, ticker, media,
                   taskVars>>

\* cleanup_expired_messages returns; cleanup_expired_media selects its rows.
SwMediaSelect ==
    /\ swpc = "msgs"
    /\ swq = {}
    /\ swq' = ExpiredMedia
    /\ swpc' = "media"
    /\ UNCHANGED <<connVars, recvd, hpc, h, storeVars, unread, now, ticker, swcur,
                   swops, media, s3, taskVars>>

\* for media in expired_media: delete the object and its thumbnail ...
SwMediaObjects(row) ==
    /\ swpc = "media"
    /\ row \in swq
    /\ s3' = {k \in delete_media(s3, row.s3_key) : k \notin row.thumbnail_s3_key}
    /\ swcur' = row
    /\ swpc' = "media_row"
    /\ UNCHANGED <<connVars, recvd, hpc, h, storeVars, unread, now, ticker, swq,
                   swops, media, taskVars>>

\* ... then DELETE FROM media WHERE id = $1
SwMediaRow ==
    /\ swpc = "media_row"
    /\ media' = {row \in media : row.id # swcur.id}
    /\ swq' = swq \ {swcur}
    /\ swcur' = 0
    /\ swpc' = "media"
    /\ UNCHANGED <<connVars, recvd, hpc, h, storeVars, unread, now, ticker, swops,
                   s3, taskVars>>

\* cleanup_expired_media returns: the loop goes back to ticker.tick().await
SwSleep ==
    /\ swpc = "media"
    /\ swq = {}
    /\ swpc' = "sleep"
    /\ UNCHANGED <<connVars, recvd, hpc, h, storeVars, unread, now, ticker, swq,
                   swcur, swops, media, s3, taskVars>>

\* Time passes. A cycle of the sweeper takes no time: the clock stands still
\* while a tick is due or a cycle is running.
Tick ==
    /\ now < MaxTime
    /\ swpc = "sleep"
    /\ now < ticker
    /\ now' = now + 1
    /\ UNCHANGED <<connVars, recvd, hpc, h, storeVars, unread, ticker, swpc, swq,
                   swcur, swops, media, s3, taskVars>>

\* ------------------------------------------------------------ specification

\* The frames of the clients: plain text messages of a room.
PlainFrames ==
    [chat_room_id : Rooms, view_once : {FALSE}, expires_in_seconds : {{}},
     media_url : {<<>>}]

\* Connections are interchangeable, so their users are drawn in non-decreasing
\* order; every assignment of users to connections is one of these up to renaming.
ConnUserChoices ==
    {f \in [Conns -> Users] : \A c, d \in Conns : c <= d => f[c] <= f[d]}

Init ==
    /\ connections = [u \in Users |-> 0]
    /\ nextChan = 0
    /\ pc = [c \in Conns |-> "idle"]
    /\ connUser \in ConnUserChoices
    /\ tx = [c \in Conns |-> 0]
    /\ rx = [c \in Conns |-> 0]
    /\ recvd = [c \in Conns |-> <<>>]
    /\ presence = [u \in Users |-> "none"]
    /\ hpc = [c \in Conns |-> "none"]
    /\ h = [c \in Conns |-> NoCtx]
    /\ messages = <<>>
    /\ message_reads = [k \in Keys |-> 0]
    /\ message_views = [k \in Keys |-> 0]
    /\ viewed_at = [k \in Keys |-> 0]
    /\ saved_messages = [k \in Keys |-> 0]
    /\ chat_members = [r \in Rooms |-> Users]
    /\ chat_rooms = [r \in Rooms |-> GroupRoom]
    /\ cc = [k \in Calls |-> NoCall]
    /\ typing = NoTyping
    /\ obs = [c \in Conns |-> NoObs]
    /\ redis_lock = 0
    /\ forwarded = [c \in Conns |-> 0]
    /\ unread = [u \in Users |-> [r \in Rooms |-> 0]]
    /\ SweeperIdle

Lifecycle(c) ==
    \/ Register(c)
    \/ Subscribe(c)
    \/ SetOnline(c)
    \/ RecvTaskEnd(c)
    \/ SendTaskEnd(c)
    \/ Remove(c)
    \/ SetOffline(c)

SendMessage(c) ==
    \/ SmMembers(c)
    \/ \E member \in Users : SmFanout(c, member)
    \/ SmIncr(c)

MarkRead(c) ==
    \/ \E m \in MsgIds : RecvMarkRead(c, m)
    \/ MrClear(c)
    \/ MrNotify(c)

Next ==
    \E c \in Conns :
        \/ Lifecycle(c)
        \/ \E f \in PlainFrames : RecvSendMessage(c, f, MaxMsgs)
        \/ SendMessage(c)

Spec == Init /\ [][Next]_vars

\* Unread accounting: connects, disconnects, send_message and mark_read.
UnreadNext ==
    \E c \in Active :
        \/ Lifecycle(c)
        \/ \E f \in PlainFrames : RecvSendMessage(c, f, MaxMsgs)
        \/ SendMessage(c)
        \/ MarkRead(c)

UnreadSpec == Init /\ [][UnreadNext]_vars

\* The users of `on` have one running connection each: the state after the
\* connections of `on`, opened by distinct users, have registered, subscribed and
\* set their users online.
Established(on) ==
    /\ connections = [u \in Users |-> IF u \in on THEN u ELSE 0]
    /\ nextChan = NumActive
    /\ pc = [c \in Conns |-> IF c \in on THEN "running" ELSE "idle"]
    /\ connUser = [c \in Conns |-> IF c \in Users THEN c ELSE NumUsers]
    /\ tx = [c \in Conns |-> IF c \in on THEN c ELSE 0]
    /\ rx = [c \in Conns |-> IF c \in on THEN c ELSE 0]
    /\ recvd = [c \in Conns |-> <<>>]
    /\ presence = [u \in Users |-> IF u \in on THEN "online" ELSE "none"]
    /\ hpc = [c \in Conns |-> IF c \in on THEN "recv" ELSE "none"]
    /\ h = [c \in Conns |-> NoCtx]
    /\ messages = <<>>
    /\ message_reads = [k \in Keys |-> 0]
    /\ message_views = [k \in Keys |-> 0]
    /\ viewed_at = [k \in Keys |-> 0]
    /\ saved_messages = [k \in Keys |-> 0]
    /\ chat_members = [r \in Rooms |-> Users]
    /\ chat_rooms = [r \in Rooms |-> GroupRoom]
    /\ cc = [k \in Calls |-> NoCall]
    /\ typing = NoTyping
    /\ obs = [c \in Conns |-> NoObs]
    /\ redis_lock = 0
    /\ forwarded = [c \in Conns |-> 0]
    /\ unread = [u \in Users |-> [r \in Rooms |-> 0]]
    /\ SweeperIdle

\* Every user of Active is connected.
ConnectedInit == Established(Active)

\* Some users of Active are connected, the others are not.
SweepInit == \E on \in SUBSET Active : on # {} /\ Established(on)

\* The frames of the clients: text messages, view_once or not.
ViewFrames ==
    [chat_room_id : Rooms, view_once : BOOLEAN, expires_in_seconds : {{}},
     media_url : {<<>>}]

Teardown(c) ==
    \/ RecvTaskEnd(c)
    \/ SendTaskEnd(c)
    \/ Remove(c)
    \/ SetOffline(c)

MarkViewed(c) ==
    \/ \E m \in MsgIds : RecvMarkViewed(c, m)
    \/ MvNotify(c)
    \/ MvDelete(c)
    \/ MvMembers(c)
    \/ \E member \in Users : MvFanout(c, member)

Http ==
    \E u \in Users, m \in MsgIds :
        \/ mark_message_viewed(u, m)
        \/ save_message(u, m)
        \/ unsave_message(u, m)

\* Receipts: send_message, mark_read, mark_viewed and the HTTP endpoints on
\* established connections, which may close.
ViewNext ==
    \/ \E c \in Active :
        \/ Teardown(c)
        \/ \E f \in ViewFrames : RecvSendMessage(c, f, MaxViewMsgs)
        \/ SendMessage(c)
        \/ MarkRead(c)
        \/ MarkViewed(c)
    \/ Http

ViewSpec == ConnectedInit /\ [][ViewNext]_vars

\* The frames of the clients: messages with or without a time to live, with no
\* media, with media at an S3 URL or with media at a public-base URL.
SweepFrames ==
    [chat_room_id : Rooms, view_once : {FALSE},
     expires_in_seconds : {{}} \cup {{t} : t \in 0..MaxTtl},
     media_url : {<<>>, S3Url(<<"k1">>), PublicUrl(<<"k1">>)}]

Sweeper ==
    \/ SwTick
    \/ \E m \in MsgIds : SwMsgUpdate(m)
    \/ SwMsgMedia
    \/ SwMediaSelect
    \/ \E row \in media : SwMediaObjects(row)
    \/ SwMediaRow
    \/ SwSleep

\* Expiry: send_message on established connections, the clock and the sweeper.
SweepNext ==
    \/ \E c \in Active :
        \/ \E f \in SweepFrames : RecvSendMessage(c, f, MaxMsgs)
        \/ SendMessage(c)
    \/ Sweeper
    \/ Tick

SweepSpec == SweepInit /\ [][SweepNext]_vars

\* The process has just started and the database holds no room.
ChatInit ==
    /\ connections = [u \in Users |-> 0]
    /\ nextChan = 0
    /\ pc = [c \in Conns |-> "idle"]
    /\ connUser = [c \in Conns |-> IF c \in Users THEN c ELSE NumUsers]
    /\ tx = [c \in Conns |-> 0]
    /\ rx = [c \in Conns |-> 0]
    /\ recvd = [c \in Conns |-> <<>>]
    /\ presence = [u \in Users |-> "none"]
    /\ hpc = [c \in Conns |-> "none"]
    /\ h = [c \in Conns |-> NoCtx]
    /\ messages = <<>>
    /\ message_reads = [k \in Keys |-> 0]
    /\ message_views = [k \in Keys |-> 0]
    /\ viewed_at = [k \in Keys |-> 0]
    /\ saved_messages = [k \in Keys |-> 0]
    /\ chat_members = <<>>
    /\ chat_rooms = <<>>
    /\ cc = [k \in Calls |-> NoCall]
    /\ typing = NoTyping
    /\ obs = [c \in Conns |-> NoObs]
    /\ redis_lock = 0
    /\ forwarded = [c \in Conns |-> 0]
    /\ unread = [u \in Users |-> [r \in Rooms |-> 0]]
    /\ SweeperIdle

create_chat(k) ==
    \/ \E creator \in Users : \E other \in Users \ {creator} :
          CcRequest(k, creator, other)
    \/ CcFind(k)
    \/ CcInsertRoom(k)
    \/ CcAddMember(k)

\* Rooms: the create_chat requests for direct chats, in any interleaving.
ChatNext == \E k \in Calls : create_chat(k)

ChatSpec == ChatInit /\ [][ChatNext]_vars

\* Frames: connects and disconnects, send_message, and frames that are not
\* protocol events.
FrameNext ==
    \E c \in Active :
        \/ Lifecycle(c)
        \/ \E f \in PlainFrames : RecvSendMessage(c, f, MaxMsgs)
        \/ SendMessage(c)
        \/ RecvUndecodable(c)
        \/ RecvNonText(c)

FrameSpec == Init /\ [][FrameNext]_vars

Typing(c) ==
    \/ \E room \in Rooms, set \in BOOLEAN, ok \in BOOLEAN : RecvTyping(c, room, set, ok)
    \/ TsFanout(c)
    \/ TsUserFail(c)
    \/ TpFanout(c)
    \/ TypingMembersFail(c)

Failures(c) ==
    \/ SmInsertFail(c)
    \/ SmMembersFail(c)
    \/ SmIncrFail(c)
    \/ ReceiptInsertFail(c)
    \/ MrClearFail(c)
    \/ MvDeleteFail(c)
    \/ MvMembersFail(c)

\* The clean-up of handle_socket after its select! has returned.
CleanUp(c) == Remove(c) \/ SetOffline(c)

\* Failures: the five kinds of inbound events read on the connection of the first
\* user, with store calls that fail, and the clean-up of the connection when its
\* task has ended; the other established connections receive.
FaultNext ==
    \E c \in {Min(Active)} :
        \/ \E f \in ViewFrames : RecvSendMessage(c, f, MaxViewMsgs)
        \/ SendMessage(c)
        \/ MarkRead(c)
        \/ MarkViewed(c)
        \/ Typing(c)
        \/ Failures(c)
        \/ CleanUp(c)

\* The first user is connected; each of the others is connected or not.
FaultInit == \E on \in SUBSET Active : Min(Active) \in on /\ Established(on)

FaultSpec == FaultInit /\ [][FaultNext]_vars

\* The frames of the clients: messages, view_once or not, with or without a time
\* to live, with no media, with media at an S3 URL or at a public-base URL.
PurgeFrames ==
    [chat_room_id : Rooms, view_once : BOOLEAN,
     expires_in_seconds : {{}, {1}},
     media_url : {<<>>, S3Url(<<"k1">>), PublicUrl(<<"k1">>)}]

\* POST /api/users/:user_id/messages/:message_id/view, by any user
HttpView == \E u \in Users, m \in MsgIds : mark_message_viewed(u, m)

\* The steps the server takes by itself once a frame has been read: the rest of
\* the handlers of send_message and mark_viewed.
HandlerSteps(c) ==
    \/ SendMessage(c)
    \/ MvNotify(c)
    \/ MvDelete(c)
    \/ MvMembers(c)
    \/ \E member \in Users : MvFanout(c, member)

\* Deletion: send_message and mark_viewed on established connections, the view
\* endpoint, a failing soft delete, the clock and the sweeper.
PurgeNext ==
    \/ \E c \in Active :
        \/ \E f \in PurgeFrames : RecvSendMessage(c, f, MaxViewMsgs)
        \/ \E m \in MsgIds : RecvMarkViewed(c, m)
        \/ HandlerSteps(c)
        \/ MvDeleteFail(c)
    \/ HttpView
    \/ Sweeper
    \/ Tick

\* The runtime keeps polling the tasks it has spawned: the sweeper's interval
\* keeps ticking, and a handler that can take its next step takes it.
PurgeFairness ==
    /\ WF_vars(Sweeper)
    /\ WF_vars(Tick)
    /\ \A c \in Active : WF_vars(HandlerSteps(c))

\* One user is connected, the other is not.
PurgeInit == Established({Min(Active)})

PurgeSpec == PurgeInit /\ [][PurgeNext]_vars /\ PurgeFairness

\* ------------------------------------------- frames of a server-to-client kind

\* The tags of the variants of WsMessage (serde tag = "type", snake_case): the
\* five the client sends and the seven the server sends. One enum serves both
\* directions, so a text frame with any of the twelve tags and the variant's
\* fields decodes.
ClientKinds == {"send_message", "typing_start", "typing_stop", "mark_read",
                "mark_viewed"}
ServerKinds == {"new_message", "user_typing", "user_stopped_typing",
                "message_read", "message_viewed", "message_expired", "error"}

\* match msg { ... } of handle_ws_message: the arm a decoded frame is handled by;
\* "_" is the catch-all arm.
ArmOf(kind) == IF kind \in ClientKinds THEN kind ELSE "_"

\* The catch-all arm, _ => {}: nothing is sent to anyone.
CatchAllEchoes(log, u, kind) == Route(log, u, <<kind, 0, 0>>)
CatchAll(log, u, kind) == log

\* A text frame is read that decodes to a variant of the given tag and is
\* handled by the catch-all arm: handle_ws_message returns and the loop goes on
\* to the next frame.
RecvOtherKind(c, kind) ==
    /\ AwaitingFrame(c)
    /\ ArmOf(kind) = "_"
    /\ obs[c].ignored < MaxFaults
    /\ obs' = [obs EXCEPT ![c].ignored = @ + 1]
    /\ recvd' = CatchAll(recvd, connUser[c], kind)
    /\ UNCHANGED <<connVars, hpc, h, messages, message_reads, viewVars,
                   saved_messages, chatVars, typing, unread, sweepVars, taskVars>>

\* Inbound frames of any kind: connects and disconnects, send_message, and the
\* frames with a tag of the other direction.
InboundNext ==
    \E c \in Active :
        \/ Lifecycle(c)
        \/ \E f \in PlainFrames : RecvSendMessage(c, f, MaxMsgs)
        \/ SendMessage(c)
        \/ \E kind \in ClientKinds \cup ServerKinds : RecvOtherKind(c, kind)

InboundSpec == Init /\ [][InboundNext]_vars

\* ------------------------------------------------- failures in the sweeper

\* if let Err(e) = self.cleanup_...().await { eprintln!(...) }: the error of a
\* pass is printed and the loop goes on to `next`; "stopped" is a sweeper whose
\* task has ended.
PassErrorEndsLoop(next) == "stopped"
PassErrorLogged(next) == next

\* let _ = self.media_service.delete_media(...).await: the error of the media
\* store is dropped; the pass goes on at `next` with the rows `rest` still to do.
MediaErrorEndsPass(next, rest) ==
    [pc |-> IF next = "media_row" THEN "sleep" ELSE next, rest |-> {}]
MediaErrorDropped(next, rest) == [pc |-> next, rest |-> rest]

\* ticker.tick().await returns and the SELECT of cleanup_expired_messages fails:
\* `?` returns the error to start, and cleanup_expired_media is called next.
SwSelectFail ==
    /\ swpc = "sleep"
    /\ now >= ticker
    /\ ticker' = ticker + SweepInterval
    /\ swq' = {}
    /\ swpc' = PassErrorLogged("msgs")
    /\ UNCHANGED <<connVars, recvd, hpc, h, storeVars, unread, now, swcur, swops,
                   media, s3, taskVars>>

\* The UPDATE of a selected message fails: `?` ends cleanup_expired_messages, the
\* rows not yet processed stay as they are, and cleanup_expired_media is called.
SwMsgUpdateFail(m) ==
    /\ swpc = "msgs"
    /\ m \in swq
    /\ swq' = {}
    /\ swpc' = PassErrorLogged("msgs")
    /\ UNCHANGED <<connVars, recvd, hpc, h, storeVars, unread, now, ticker, swcur,
                   swops, media, s3, taskVars>>

\* delete_media of a soft-deleted message's object fails: the object stays in the
\* media store and the loop goes on to the next selected message.
SwMsgMediaFail ==
    /\ swpc = "msg_media"
    /\ LET out == MediaErrorDropped("msgs", swq \ {swcur})
       IN  swpc' = out.pc /\ swq' = out.rest
    /\ swcur' = 0
    /\ UNCHANGED <<connVars, recvd, hpc, h, storeVars, unread, now, ticker, swops,
                   media, s3, taskVars>>

\* The SELECT of cleanup_expired_media fails: `?` returns the error to start,
\* which goes back to ticker.tick().await.
SwMediaSelectFail ==
    /\ swpc = "msgs"
    /\ swq = {}
    /\ swpc' = PassErrorLogged("sleep")
    /\ UNCHANGED <<connVars, recvd, hpc, h, storeVars, unread, now, ticker, swq,
                   swcur, swops, media, s3, taskVars>>

\* delete_media of a media row's object, of its thumbnail or of both fails: what
\* could not be deleted stays in the media store, and the row is deleted next.
SwMediaObjectsFail(row, okObject, okThumb) ==
    /\ swpc = "media"
    /\ row \in swq
    /\ ~(okObject /\ okThumb)
    /\ s3' = {k \in s3 : /\ okObject => k # row.s3_key
                         /\ okThumb => k \notin row.thumbnail_s3_key}
    /\ LET out == MediaErrorDropped("media_row", swq)
       IN  /\ swpc' = out.pc
           /\ swq' = out.rest
           /\ swcur' = IF out.pc = "media_row" THEN row ELSE 0
    /\ UNCHANGED <<connVars, recvd, hpc, h, storeVars, unread, now, ticker, swops,
                   media, taskVars>>

\* DELETE FROM media WHERE id = $1 fails: `?` ends cleanup_expired_media, and
\* start goes back to ticker.tick().await.
SwMediaRowFail ==
    /\ swpc = "media_row"
    /\ swq' = {}
    /\ swcur' = 0
    /\ swpc' = PassErrorLogged("sleep")
    /\ UNCHANGED <<connVars, recvd, hpc, h, storeVars, unread, now, ticker, swops,
                   media, s3, taskVars>>

\* The calls of the sweeper to the media store that fail.
MediaFailures ==
    \/ SwMsgMediaFail
    \/ \E row \in media, okObject, okThumb \in BOOLEAN :
           SwMediaObjectsFail(row, okObject, okThumb)

\* The queries of the sweeper that fail.
QueryFailures ==
    \/ SwSelectFail
    \/ \E m \in MsgIds : SwMsgUpdateFail(m)
    \/ SwMediaSelectFail
    \/ SwMediaRowFail

\* The sweeper with a media store that may fail: send_message of one connected
\* user, the clock and the sweeper.
MediaFaultNext ==
    \/ \E c \in Active :
        \/ \E f \in SweepFrames : RecvSendMessage(c, f, MaxMsgs)
        \/ SendMessage(c)
    \/ Sweeper
    \/ MediaFailures
    \/ Tick

MediaFaultSpec == PurgeInit /\ [][MediaFaultNext]_vars

\* The sweeper with a database and a media store that may fail.
SweepFaultNext ==
    \/ MediaFaultNext
    \/ QueryFailures

SweepFaultSpec == PurgeInit /\ [][SweepFaultNext]_vars

\* ------------------------------------------------------- the forwarding loop

\* The events handed to connection c's Receiver that its send task has not taken.
Pending(c) == Len(recvd[c]) - forwarded[c]

\* while let Ok(msg) = rx.recv().await { sender.send(Message::Text(msg)) }: the
\* send task takes the next event of its Receiver and writes it to the socket.
SendTaskForward(c) ==
    /\ pc[c] = "running"
    /\ Pending(c) > 0
    /\ Pending(c) <= ChannelCapacity
    /\ forwarded' = [forwarded EXCEPT ![c] = @ + 1]
    /\ UNCHANGED <<connVars, recvd, hpc, h, storeVars, unread, sweepVars,
                   redis_lock>>

\* The Receiver has fallen behind by more than the channel retains: rx.recv()
\* returns Err(RecvError::Lagged(n)), the pattern Ok(msg) of the while let does not
\* match, and the loop and the send task end. select! then aborts the receive
\* task, which is cancelled at the await it is suspended in.
SendTaskLagged(c) ==
    /\ pc[c] = "running"
    /\ Pending(c) > ChannelCapacity
    /\ pc' = [pc EXCEPT ![c] = "cleanup"]
    /\ hpc' = [hpc EXCEPT ![c] = IF hpc[c] = "recv" THEN "ended" ELSE "aborted"]
    /\ h' = [h EXCEPT ![c] = NoCtx]
    /\ rx' = [rx EXCEPT ![c] = 0]
    /\ UNCHANGED <<connections, nextChan, connUser, tx, recvd, presence,
                   storeVars, unread, sweepVars, taskVars>>

\* Slow subscribers: send_message on established connections whose send tasks
\* forward at their own pace.
LagNext ==
    \E c \in Active :
        \/ \E f \in PlainFrames : RecvSendMessage(c, f, MaxMsgs)
        \/ SendMessage(c)
        \/ SendTaskForward(c)
        \/ SendTaskLagged(c)
        \/ CleanUp(c)

LagSpec == SweepInit /\ [][LagNext]_vars

\* ------------------------------------------- the lock of the presence store

\* Connection c's task is at a call of the presence store: redis.lock().await is
\* what it does next, or it holds the guard and the call is in flight.
AtPresenceCall(c) ==
    \/ pc[c] \in {"subscribed", "removed"}
    \/ pc[c] = "running" /\ hpc[c] \in {"sm_incr", "mr_clear", "ts_lock", "tp_lock"}

\* let mut redis_guard = redis.lock().await: the task gets the guard of the
\* tokio Mutex when no other task holds it, and waits otherwise.
RedisLock(c) ==
    /\ AtPresenceCall(c)
    /\ redis_lock = 0
    /\ redis_lock' = c
    /\ UNCHANGED <<connVars, recvd, hpc, h, storeVars, unread, sweepVars,
                   forwarded>>

\* The guard is a local of the block (or of the else branch) that makes the call:
\* it is dropped when the call has returned, before the handler does anything
\* else.
GuardKept(c) == c
GuardDropped(c) == 0

\* The call of the presence store made under the guard, and the drop of the
\* guard.
LockedCall(c) ==
    /\ redis_lock = c
    /\ \/ SetOnlineCall(c)
       \/ SetOfflineCall(c)
       \/ SmIncrCall(c)
       \/ MrClearCall(c)
    /\ redis_lock' = GuardDropped(c)

\* A typing_start or typing_stop frame is read: the handler begins with
\* redis.lock().await.
TypingFrame(c, room, set) ==
    /\ AwaitingFrame(c)
    /\ obs[c].typed < MaxTyping
    /\ obs' = [obs EXCEPT ![c].typed = @ + 1]
    /\ hpc' = [hpc EXCEPT ![c] = IF set THEN "ts_lock" ELSE "tp_lock"]
    /\ h' = [h EXCEPT ![c] = [NoCtx EXCEPT !.room = room]]
    /\ UNCHANGED <<connVars, recvd, messages, message_reads, viewVars,
                   saved_messages, chatVars, typing, unread, sweepVars, taskVars>>

\* set_typing or clear_typing under the guard, and the drop of the guard; the
\* queries and the fan-out of the handler follow.
LockedTyping(c) ==
    /\ redis_lock = c
    /\ pc[c] = "running"
    /\ hpc[c] \in {"ts_lock", "tp_lock"}
    /\ typing' = IF hpc[c] = "ts_lock"
                 THEN set_typing(typing, connUser[c], h[c].room)
                 ELSE clear_typing(typing, connUser[c], h[c].room)
    /\ hpc' = [hpc EXCEPT ![c] = IF hpc[c] = "ts_lock" THEN "ts_fanout"
                                                       ELSE "tp_fanout"]
    /\ redis_lock' = GuardDropped(c)
    /\ UNCHANGED <<connVars, recvd, h, messages, message_reads, viewVars,
                   saved_messages, chatVars, obs, unread, sweepVars, forwarded>>

\* The steps of connection c that make no call of the presence store.
Unlocked(c) ==
    \/ Register(c)
    \/ Subscribe(c)
    \/ RecvTaskEnd(c)
    \/ Remove(c)
    \/ \E f \in PlainFrames : RecvSendMessage(c, f, MaxViewMsgs)
    \/ SmMembers(c)
    \/ \E member \in Users : SmFanout(c, member)
    \/ \E m \in MsgIds : RecvMarkRead(c, m)
    \/ MrNotify(c)
    \/ c = Min(Active) /\ \E room \in Rooms, set \in BOOLEAN : TypingFrame(c, room, set)
    \/ TsFanout(c)
    \/ TpFanout(c)

\* The presence store behind its lock: connects, disconnects, send_message,
\* mark_read and the typing events, every call of the presence store made by a
\* task that has taken the lock first.
LockNext ==
    \E c \in Active :
        \/ Unlocked(c)
        \/ RedisLock(c)
        \/ LockedCall(c)
        \/ LockedTyping(c)

LockSpec == Init /\ [][LockNext]_vars

\* ------------------------------------------------------------------ claims

ConnsOf(u) == {c \in Conns : connUser[c] = u}

\* The connection holds a Sender of its user's channel.
Joined(c) == pc[c] \in {"registered", "subscribed", "running"}

\* The connection is open and its Receiver subscribed: its tasks forward events.
Live(c) == pc[c] = "running"

\* No connection of u has begun its teardown.
NoTeardownOf(u) == \A c \in ConnsOf(u) : pc[c] = "idle" \/ Joined(c)

\* No send_message handler is in flight and none was cancelled part-way.
SendsComplete ==
    \A c \in Conns : hpc[c] \notin {"sm_members", "sm_fanout", "sm_incr", "aborted"}

\* C1: while only registrations of a user's connections have run (in any
\* interleaving of their get-or-create and subscribe steps), the registry holds
\* exactly one channel for the user, every registered connection holds a Sender
\* of that channel and every subscribed one is subscribed to it; one channel has
\* been created per registered user.
C1_OneChannelPerUser ==
    /\ \A u \in Users : NoTeardownOf(u) =>
          \A c \in ConnsOf(u) :
              /\ Joined(c) => connections[u] # 0 /\ tx[c] = connections[u]
              /\ pc[c] \in {"subscribed", "running"} => rx[c] = connections[u]
    /\ (\A u \in Users : NoTeardownOf(u)) =>
          nextChan = Cardinality({u \in Users : connections[u] # 0})

\* C1 witness: two connections of one user are between get-or-create and
\* subscribe at the same time, and a third of the same user is already running.
C1_Witness ==
    \E c, d, e \in Conns :
        /\ c # d /\ connUser[c] = connUser[d] /\ connUser[e] = connUser[c]
        /\ pc[c] = "registered" /\ pc[d] = "registered" /\ pc[e] = "running"
        /\ NoTeardownOf(connUser[c])

\* C2 (the claim as stated): every live connection of a user is subscribed to
\* the channel the registry holds for the user, and two live connections of one
\* user are subscribed to the same channel.
C2_LiveConnectionsShareRegistryChannel ==
    /\ \A c \in Conns : Live(c) => rx[c] = connections[connUser[c]]
    /\ \A c, d \in Conns :
          Live(c) /\ Live(d) /\ connUser[c] = connUser[d] => rx[c] = rx[d]

\* C6: (a) when a member never had a connection and every send_message handler
\* has run to its end, the member's unread counter of the room equals the number
\* of messages sent to the room; (b) the clear step of a mark_read handler, which
\* runs once the read receipt of any one message is newly inserted, leaves the
\* counter of (user, room of the message) at 0 whatever it was.
C6_Counted ==
    \A u \in Users, r \in Rooms :
        (\A c \in ConnsOf(u) : pc[c] = "idle") /\ SendsComplete
            => unread[u][r] = Cardinality(GetMessagesAll(r))
C6_Cleared ==
    \A c \in Conns :
        MrClear(c) => unread'[connUser[c]][messages[h[c].m].room] = 0
C6_UnreadAccounting == [](C6_Counted) /\ [][C6_Cleared]_vars

\* C6 witness: a member that never connected has a counter of MaxMsgs after
\* MaxMsgs messages were sent to the room and their handlers ended.
C6_Witness ==
    \E u \in Users, r \in Rooms :
        /\ \A c \in ConnsOf(u) : pc[c] = "idle"
        /\ SendsComplete
        /\ Cardinality(GetMessagesAll(r)) = MaxMsgs
        /\ unread[u][r] = MaxMsgs

\* C7 (the claim as stated): when the fan-out of send_message serves a member
\* that has a live connection at that moment, every live connection of the member
\* is handed the new_message event and no unread increment follows.
C7_Step(c, u) ==
    SmFanout(c, u) /\ (\E d \in ConnsOf(u) : Live(d))
        => /\ hpc'[c] # "sm_incr"
           /\ \A d \in ConnsOf(u) :
                 Live(d) => recvd'[d] = Append(recvd[d], NewMessageEvent(h[c].m))
C7_NoIncrementWhileLive == [][\A c \in Conns, u \in Users : C7_Step(c, u)]_vars

\* The handler of mark_viewed of connection c is in flight.
InMarkViewed(c) == hpc[c] \in {"mv_notify", "mv_delete", "mv_members", "mv_fanout"}

\* The step is one of connection c's handler of mark_viewed.
MarkViewedStep(c) ==
    \/ MvNotify(c)
    \/ MvDelete(c)
    \/ MvMembers(c)
    \/ \E member \in Users : MvFanout(c, member)

\* The number of occurrences of event ev in the sequence log.
RECURSIVE Count(_, _)
Count(log, ev) ==
    IF log = <<>> THEN 0
    ELSE (IF Head(log) = ev THEN 1 ELSE 0) + Count(Tail(log), ev)

\* C3 (the claim as stated): when a Save record of (message, user) existed as
\* the user's mark_viewed frame was read and still exists, no step of the handler
\* of that frame soft-deletes the message or hands a message_expired event to any
\* connection.
C3_Step(c) ==
    MarkViewedStep(c) /\ h[c].saved /\ saved_messages[<<h[c].m, connUser[c]>>] > 0
        => /\ messages'[h[c].m].deleted = messages[h[c].m].deleted
           /\ \A d \in Conns :
                 Count(recvd'[d], MessageExpiredEvent(h[c].m))
                     = Count(recvd[d], MessageExpiredEvent(h[c].m))
C3_SavedNotDeletedOnView == [][\A c \in Conns : C3_Step(c)]_vars

\* C4: (a) when the handler of a mark_viewed that newly recorded the user's
\* view of a view_once message returns, with no Save record for (message,
\* user), the message is soft-deleted; (b) get_messages and last_message never
\* give a soft-deleted message; (c) a soft-deleted message stays soft-deleted.
C4_Returns(c) ==
    /\ InMarkViewed(c)
    /\ hpc'[c] = "recv"
    /\ messages[h[c].m].view_once
    /\ saved_messages[<<h[c].m, connUser[c]>>] = 0
C4_Reads ==
    \A r \in Rooms :
        /\ \A m \in get_messages(r) : ~messages[m].deleted
        /\ last_message(r) # 0 => ~messages[last_message(r)].deleted
C4_Stays ==
    \A m \in 1..Len(messages) :
        messages[m].deleted => Len(messages') >= m /\ messages'[m].deleted
C4_ViewOnceDeleted ==
    /\ [][\A c \in Conns : C4_Returns(c) => messages'[h[c].m].deleted]_vars
    /\ [](C4_Reads)
    /\ [][C4_Stays]_vars

\* C4 witness: a view_once message without any Save record, viewed through
\* mark_viewed by a connection whose handler has returned, is soft-deleted and
\* no longer among the messages of its room.
C4_Witness ==
    \E m \in 1..Len(messages), c \in Conns :
        /\ messages[m].view_once
        /\ \A u \in Users : saved_messages[<<m, u>>] = 0
        /\ message_views[<<m, connUser[c]>>] = 1
        /\ AwaitingFrame(c)
        /\ \A u \in Users : u # connUser[c] => message_views[<<m, u>>] = 0
        /\ \E d \in Conns : Count(recvd[d], MessageExpiredEvent(m)) > 0
        /\ messages[m].deleted
        /\ m \notin get_messages(messages[m].room)

\* C5 (the claim as stated, its "never twice" half): no connection is handed
\* the message_expired event of one message more than once.
C5_ExpiredAtMostOnce ==
    \A c \in Conns, m \in 1..Len(messages) :
        Count(recvd[c], MessageExpiredEvent(m)) <= 1

\* C8: (a) the message_reads and message_views tables hold at most one row per
\* (message, user); (b) a mark_read or mark_viewed frame, or a call of the view
\* endpoint, for a (message, user) that already has its row changes nothing: no
\* row, no event on any channel, no counter, no deleted flag, and the receive
\* task goes on to the next frame.
C8_OneRow ==
    \A k \in Keys : message_reads[k] <= 1 /\ message_views[k] <= 1
C8_SecondIsNoOp ==
    /\ \A c \in Conns, m \in MsgIds :
          RecvMarkRead(c, m) /\ message_reads[<<m, connUser[c]>>] > 0
              => UNCHANGED vars
    /\ \A c \in Conns, m \in MsgIds :
          RecvMarkViewed(c, m) /\ message_views[<<m, connUser[c]>>] > 0
              => UNCHANGED vars
    /\ \A u \in Users, m \in MsgIds :
          mark_message_viewed(u, m) /\ message_views[<<m, u>>] > 0
              => UNCHANGED vars
C8_NoDuplicateReceipts == [](C8_OneRow) /\ [][C8_SecondIsNoOp]_vars

\* C8 witness: a connection whose user has both a Read and a View row for a
\* message is reading frames, so a second mark_read and a second mark_viewed of
\* that message can be received.
C8_Witness ==
    \E c \in Conns, m \in 1..Len(messages) :
        /\ AwaitingFrame(c)
        /\ message_reads[<<m, connUser[c]>>] = 1
        /\ message_views[<<m, connUser[c]>>] = 1
        /\ ENABLED RecvMarkRead(c, m)
        /\ ENABLED RecvMarkViewed(c, m)

\* The sweeper has run every cycle that was due: it sleeps until the next tick.
SweeperAsleep == swpc = "sleep" /\ now < ticker

\* No send_message handler is at work on message m.
Sent(m) ==
    \A c \in Conns :
        hpc[c] \in {"sm_members", "sm_fanout", "sm_incr"} => h[c].m # m

\* C9: (a) once the handler of a send_message frame has returned, every running
\* connection of a member of the room has been handed the new_message event of
\* the message, once; (b) a message with an expiration timestamp e is
\* soft-deleted and no longer returned by get_messages whenever the clock is at
\* e + SweepInterval or later and the sweeper has run the cycles due so far;
\* (c) the sweeper soft-deletes no message that has no expiration timestamp or
\* whose expiration timestamp has not passed.
C9_Delivered ==
    \A m \in 1..Len(messages) : Sent(m) =>
        \A d \in Conns :
            Live(d) /\ connUser[d] \in MembersOf(messages[m].room)
                => Count(recvd[d], NewMessageEvent(m)) = 1
C9_Swept ==
    \A m \in 1..Len(messages) :
        /\ messages[m].expires_at # 0
        /\ now >= messages[m].expires_at + SweepInterval
        /\ SweeperAsleep
        => messages[m].deleted /\ m \notin get_messages(messages[m].room)
C9_NotEarly ==
    \A m \in 1..Len(messages) :
        ~messages[m].deleted /\ messages'[m].deleted
            => messages[m].expires_at # 0 /\ messages[m].expires_at < now
C9_ExpiredWithinOneInterval ==
    [](C9_Delivered /\ C9_Swept) /\ [][C9_NotEarly]_vars

\* C9 witness: a message sent with a time to live by one member was handed to
\* the running connection of another member, and one sweep interval after its
\* expiration timestamp it is soft-deleted, by the sweeper, and no longer among
\* the messages of its room.
C9_Witness ==
    \E m \in 1..Len(messages), d \in Conns :
        /\ messages[m].expires_at # 0
        /\ Live(d) /\ connUser[d] # messages[m].sender
        /\ Count(recvd[d], NewMessageEvent(m)) = 1
        /\ now = messages[m].expires_at + SweepInterval
        /\ SweeperAsleep
        /\ swops[m].upd = 1
        /\ messages[m].deleted
        /\ m \notin get_messages(messages[m].room)

\* Two cycles of the sweeper have run since the expiration timestamp of m passed.
SweptTwice(m) ==
    /\ messages[m].expires_at # 0
    /\ SweeperAsleep
    /\ messages[m].expires_at < ticker - 2 * SweepInterval

\* The first half of C10: after two cycles over an expired row the message is
\* soft-deleted, by one soft-delete and at most one media delete of the sweeper.
C10_NoSecondSideEffect ==
    \A m \in 1..Len(messages) : SweptTwice(m) =>
        /\ messages[m].deleted
        /\ swops[m].upd = 1
        /\ swops[m].del <= 1

\* C10 (the claim as stated): after two cycles of the sweeper over an expired
\* row, the message is soft-deleted and the media object it refers to is absent
\* from the media store, and the sweeper has done one soft-delete and at most
\* one media delete on the row.
C10_SweepTwiceSameEndState ==
    /\ C10_NoSecondSideEffect
    /\ \A m \in 1..Len(messages) :
          SweptTwice(m) /\ messages[m].media_url # <<>>
              => ObjectOf(messages[m].media_url) \notin s3

\* The direct rooms of the unordered pair {a, b}: the rooms that are not groups
\* and whose members are a and b.
DirectRoomsOf(a, b) ==
    {r \in 1..Len(chat_rooms) : ~chat_rooms[r].is_group /\ chat_members[r] = {a, b}}

\* C11 (the claim as stated): at no time are there two direct rooms of one
\* unordered pair of users, and two create_chat requests for the same unordered
\* pair that have returned have returned the same room id.
C11_OneDirectRoomPerPair ==
    /\ \A a, b \in Users : a # b => Cardinality(DirectRoomsOf(a, b)) <= 1
    /\ \A k, l \in Calls :
          /\ cc[k].pc = "done" /\ cc[l].pc = "done"
          /\ {cc[k].creator, cc[k].other} = {cc[l].creator, cc[l].other}
          => cc[k].result = cc[l].result

\* The sequential half of C11: a create_chat request for a pair that arrives
\* after another request for the same pair has returned finds that room.
C11_SequentialReuse ==
    [][\A k, l \in Calls :
          /\ k # l
          /\ cc[l].pc = "done"
          /\ {cc[k].creator, cc[k].other} = {cc[l].creator, cc[l].other}
          /\ cc[k].pc = "find" /\ cc'[k].pc # "find"
          => cc'[k].pc = "done"]_vars

\* Connection c has been torn down: its registry removal has run.
TornDown(c) == pc[c] \in {"removed", "closed"}

\* The only connection user u ever opened has been torn down.
OnlyConnectionGone(u) ==
    \E c \in ConnsOf(u) :
        TornDown(c) /\ \A d \in ConnsOf(u) \ {c} : pc[d] = "idle"

\* C12: (a) once a connection's select! has returned, neither of its loops
\* runs: the receive task has ended or was cancelled and the Receiver is dropped;
\* (b) the clean-up removes the user's registry entry, and after the teardown of
\* the only connection of a user the registry holds no entry for the user;
\* (c) from then on the fan-out turn of a send_message for that user hands the
\* event to no channel and goes on to the unread increment, which adds one to
\* the user's counter of the room.
C12_LoopsStop ==
    \A c \in Conns : pc[c] \in {"cleanup", "removed", "closed"} =>
        hpc[c] \in {"ended", "aborted"} /\ rx[c] = 0
C12_NoEntry ==
    \A u \in Users : OnlyConnectionGone(u) => connections[u] = 0
C12_Removes ==
    \A c \in Conns : pc[c] = "cleanup" /\ pc'[c] = "removed" =>
        connections'[connUser[c]] = 0
C12_FallsBack ==
    \A c \in Conns, u \in Users :
        /\ OnlyConnectionGone(u)
        /\ pc'[c] = "running"
        /\ hpc[c] = "sm_fanout" /\ u \in h[c].todo /\ u \notin h'[c].todo
        => /\ recvd' = recvd
           /\ hpc'[c] = "sm_incr" /\ h'[c].member = u
C12_Increments ==
    \A c \in Conns :
        hpc[c] = "sm_incr" /\ pc'[c] = "running" /\ hpc'[c] # "sm_incr" =>
            unread'[h[c].member][messages[h[c].m].room]
                = unread[h[c].member][messages[h[c].m].room] + 1
C12_TeardownFallsBackToUnread ==
    /\ [](C12_LoopsStop /\ C12_NoEntry)
    /\ [][C12_Removes /\ C12_FallsBack /\ C12_Increments]_vars

\* C12 witness: the only connection of a user was torn down, a message sent to
\* the user's room afterwards was handed to no connection of the user, and the
\* user's unread counter of the room was incremented for it.
C12_Witness ==
    \E u \in Users, m \in 1..Len(messages) :
        /\ OnlyConnectionGone(u)
        /\ connections[u] = 0
        /\ u \in MembersOf(messages[m].room)
        /\ Sent(m)
        /\ SendsComplete
        /\ \A d \in ConnsOf(u) : Count(recvd[d], NewMessageEvent(m)) = 0
        /\ unread[u][messages[m].room] = 1

\* C13 (the claim as stated): the step that discards an undecodable frame of a
\* connection hands an error event to the connections subscribed to the channel
\* of the connection's user.
C13_ErrorEventOnMalformed ==
    [][\A c \in Conns :
          obs'[c].undecodable = obs[c].undecodable + 1
              => \E d \in ConnsOf(connUser[c]) :
                    Count(recvd'[d], ErrorEvent) = Count(recvd[d], ErrorEvent) + 1]_vars

\* No connection is ever handed an error event: nothing constructs one.
C13_NoErrorEventEver ==
    \A d \in Conns : Count(recvd[d], ErrorEvent) = 0

\* C14 (the claim as stated): the step that reads a malformed frame of a
\* connection, undecodable text or a frame that is not text, leaves the
\* connection running with its receive task awaiting the next frame, and leaves
\* the registry as it is.
C14_MalformedNonFatal ==
    [][\A c \in Conns :
          \/ obs'[c].undecodable = obs[c].undecodable + 1
          \/ obs'[c].nontext = obs[c].nontext + 1
          => /\ pc'[c] = "running" /\ hpc'[c] = "recv"
             /\ connections' = connections]_vars

\* The half of C14 about undecodable text: the discard leaves the connection
\* running, awaiting the next frame, and the registry as it is.
C14_UndecodableNonFatal ==
    [][\A c \in Conns :
          obs'[c].undecodable = obs[c].undecodable + 1
          => /\ pc'[c] = "running" /\ hpc'[c] = "recv"
             /\ connections' = connections]_vars

\* Connection c's receive task is inside a handler.
InHandler(c) == pc[c] = "running" /\ hpc[c] \notin {"none", "recv", "ended", "aborted"}

\* C15 (the claim as stated): once a storage write of a handler has failed, no
\* later step of that handler hands an event to any connection.
C15_NoFanoutAfterFailedWrite ==
    [][\A c \in Conns :
          InHandler(c) /\ h[c].failed /\ (hpc'[c] # hpc[c] \/ h'[c] # h[c])
              => recvd' = recvd]_vars

\* The half of C15 about the inserts: the step in which the INSERT of a message
\* or of a receipt fails hands no event to any connection and leaves the
\* receive task awaiting the next frame.
C15_FailedInsertAborts ==
    [][\A c \in Conns :
          AwaitingFrame(c) /\ obs'[c].failed = obs[c].failed + 1
              /\ obs'[c].typed = obs[c].typed
              => recvd' = recvd /\ hpc'[c] = "recv" /\ messages' = messages]_vars

\* C16 (the claim as stated): the step in which a store call of a connection's
\* handler fails leaves the connection running, its receive task alive and the
\* registry as it is.
C16_FailureNeverEndsLoop ==
    [][\A c \in Conns :
          obs'[c].failed = obs[c].failed + 1
              => /\ pc'[c] = "running" /\ hpc'[c] \notin {"ended", "aborted"}
                 /\ connections' = connections]_vars

\* C16 without the members query of the typing handlers: every other failing
\* store call leaves the connection running and the registry as it is.
C16_OtherFailuresNonFatal ==
    [][\A c \in Conns :
          obs'[c].failed = obs[c].failed + 1 /\ hpc[c] \notin {"ts_fanout", "tp_fanout"}
              => /\ pc'[c] = "running" /\ hpc'[c] \notin {"ended", "aborted"}
                 /\ connections' = connections]_vars

\* Connection c's receive task takes up a frame in this step: it moves to the
\* first position of a handler, or the message its handler is about changes.
StartsHandler(c) ==
    \/ hpc'[c] # hpc[c] /\ hpc'[c] \in {"sm_members", "mr_clear"}
    \/ h'[c].m # h[c].m /\ h'[c].m # 0

\* User u has opened at most one connection.
SingleConnection(u) == Cardinality({c \in ConnsOf(u) : pc[c] # "idle"}) <= 1

\* Event e2 comes before event e1 in the log.
Before(log, e2, e1) ==
    \E i, j \in 1..Len(log) : i < j /\ log[i] = e2 /\ log[j] = e1

\* C17: (a) a receive task takes up a frame (and makes the store write of its
\* handler) only when it awaits a frame with no handler in progress: the fan-out
\* of the frame before has served all its members; (b) a receive task that
\* awaits a frame holds no unfinished handler; (c) of two messages sent on one
\* connection, no connection is handed the new_message of the later one before
\* the new_message of the earlier one.
C17_OneAtATime ==
    \A c \in Conns : StartsHandler(c) => hpc[c] = "recv" /\ h[c] = NoCtx
C17_NothingPending ==
    \A c \in Conns : hpc[c] = "recv" => h[c] = NoCtx
C17_InOrder ==
    \A m1, m2 \in 1..Len(messages) :
        /\ m1 < m2
        /\ messages[m1].sender = messages[m2].sender
        /\ SingleConnection(messages[m1].sender)
        => \A d \in Conns :
              ~Before(recvd[d], NewMessageEvent(m2), NewMessageEvent(m1))
C17_SequentialPerConnection ==
    [](C17_NothingPending /\ C17_InOrder) /\ [][C17_OneAtATime]_vars

\* C17 witness: two messages were sent on the one connection of a user, and the
\* connection of another user was handed the new_message events of both, the
\* earlier message's first.
C17_Witness ==
    \E m1, m2 \in 1..Len(messages), d \in Conns :
        /\ m1 < m2
        /\ messages[m1].sender = messages[m2].sender
        /\ SingleConnection(messages[m1].sender)
        /\ connUser[d] # messages[m1].sender
        /\ Before(recvd[d], NewMessageEvent(m1), NewMessageEvent(m2))
        /\ SendsComplete

\* The handler of connection c, at work on a mark_viewed frame for a view_once
\* message sent by another user, returns in this step after its fan-out.
C18_Returns(c) ==
    /\ hpc[c] = "mv_fanout" /\ hpc'[c] = "recv"
    /\ messages[h[c].m].view_once
    /\ messages[h[c].m].sender # connUser[c]
    /\ pc'[c] = "running"

\* The message_viewed event as the client decodes it.
C18_Viewed(m, u) == <<"message_viewed", m, u>>

\* C18: when the handler of B's mark_viewed for a view_once message of A returns
\* with both still connected, every running connection of A holds message_viewed
\* (message, B) followed by message_expired (message), every running connection
\* of B holds message_expired (message), and the message is soft-deleted and not
\* returned by get_messages.
C18_Excluded ==
    \A m \in 1..Len(messages) :
        messages[m].deleted => m \notin get_messages(messages[m].room)
C18_ViewedThenExpired ==
    /\ []C18_Excluded
    /\ [][\A c \in Conns : C18_Returns(c) =>
             LET m == h[c].m
                 viewed == C18_Viewed(m, connUser[c])
                 expired == MessageExpiredEvent(m)
             IN  /\ \A a \in ConnsOf(messages[m].sender) :
                       pc'[a] = "running" => Before(recvd'[a], viewed, expired)
                 /\ Count(recvd'[c], expired) >= 1
                 /\ messages'[m].deleted]_vars

\* C18 witness: B's mark_viewed of A's view_once message has been handled with
\* both connected: A holds message_viewed then message_expired, B holds
\* message_expired, and get_messages leaves the message out.
C18_Witness ==
    \E m \in 1..Len(messages), a, b \in Conns :
        /\ messages[m].view_once
        /\ connUser[a] = messages[m].sender /\ connUser[b] # messages[m].sender
        /\ Live(a) /\ AwaitingFrame(b)
        /\ message_views[<<m, connUser[b]>>] = 1
        /\ message_views[<<m, connUser[a]>>] = 0
        /\ Before(recvd[a], C18_Viewed(m, connUser[b]), MessageExpiredEvent(m))
        /\ Count(recvd[b], MessageExpiredEvent(m)) = 1
        /\ m \notin get_messages(messages[m].room)


\* The message carries a media reference and has been soft-deleted.
DeletedWithMedia(m) ==
    /\ m \in 1..Len(messages)
    /\ Sent(m)
    /\ messages[m].deleted
    /\ messages[m].media_url # <<>>

\* The media object behind the message's reference is not in the media store.
MediaPurged(m) ==
    /\ m \in 1..Len(messages)
    /\ ObjectOf(messages[m].media_url) \notin s3

\* C19: whichever trigger soft-deletes a message that carries a media reference
\* (the expiry sweep or the mark_viewed path of a view_once message), the media
\* object behind the reference is eventually deleted from the media store.
C19_MediaEventuallyPurged ==
    \A m \in MsgIds :
        DeletedWithMedia(m) ~> MediaPurged(m)

\* What the expiry sweep does do: once a cycle that soft-deleted a message with
\* media at an S3 URL is over, the object is gone from the media store.
C19_SweepPurgesS3Urls ==
    \A m \in 1..Len(messages) :
        /\ Sent(m)
        /\ swops[m].upd > 0
        /\ extract_s3_key(messages[m].media_url) # {}
        /\ SweeperAsleep
        => ObjectOf(messages[m].media_url) \notin s3

\* C20: a view_once message with a view record that is not soft-deleted is
\* soft-deleted by the sweeper within one sweep cycle: once a full interval has
\* passed since the view was recorded, no handler of mark_viewed is still at work
\* on the message and the sweeper is asleep again, the message is soft-deleted.
C20_ViewedSweptWithinOneCycle ==
    \A m \in 1..Len(messages), u \in Users :
        /\ Sent(m)
        /\ \A c \in Conns : InMarkViewed(c) => h[c].m # m
        /\ messages[m].view_once
        /\ viewed_at[<<m, u>>] # 0
        /\ now >= viewed_at[<<m, u>>] + SweepInterval
        /\ SweeperAsleep
        => messages[m].deleted

\* C22: after any interleaving of connects and disconnects (several connections
\* of one user, a reconnect racing with an older connection's teardown), the
\* online flag of a user is true while the user has a live connection, and false
\* once a user who had connections has none.
C22_PresenceFollowsConnections ==
    \A u \in Users :
        /\ (\E c \in ConnsOf(u) : Live(c)) => presence[u] = "online"
        /\ (\A c \in ConnsOf(u) : pc[c] \in {"idle", "closed"})
               => presence[u] \in {"none", "offline"}

\* What the code does guarantee: the flag is the one written by the last of the
\* user's connections to have written it, so a user whose connections have all
\* closed is offline.
C22_OfflineOnceAllClosed ==
    \A u \in Users :
        (ConnsOf(u) # {} /\ \A c \in ConnsOf(u) : pc[c] = "closed")
            => presence[u] = "offline"

\* No handler is in flight on any connection and none was cancelled part-way.
HandlersDone == \A c \in Conns : hpc[c] \in {"none", "recv", "ended"}

\* C28: under any interleaving of a send_message fan-out with the recipient
\* connecting and sending mark_read: once the recipient has a read receipt of the
\* latest message of a room and every handler has finished, the recipient's
\* unread counter of the room is 0.
C28_ReadLeavesCounterZero ==
    \A u \in Users, r \in Rooms :
        LET lm == LastOf(GetMessagesAll(r))
        IN  (lm # 0 /\ message_reads[<<lm, u>>] > 0 /\ HandlersDone)
                => unread[u][r] = 0

\* Connection c's handler of send_message has inserted its row and its fan-out
\* is not over.
InSendMessage(c) == hpc[c] \in {"sm_members", "sm_fanout", "sm_incr"}

\* Connection c's handler of send_message is suspended in an await after the
\* insert: the query of the members (or of the sender's name), or the lock and
\* the INCR of the presence store. A task is cancelled only where it is
\* suspended.
SuspendedInSendMessage(c) == hpc[c] \in {"sm_members", "sm_incr"}

\* C29: teardown never interrupts an inbound event part-way: once send_message
\* has inserted the message row, no step ends the handler before its fan-out has
\* run over all the members, not even the end of the same connection's
\* forwarding loop.
C29_FanoutNeverCancelled ==
    [][\A c \in Conns :
          SuspendedInSendMessage(c)
              => hpc'[c] \in {"sm_members", "sm_fanout", "sm_incr", "recv"}]_vars

\* What does hold: the end of the receive loop itself never cuts a handler, the
\* loop ends only between two frames.
C29_RecvEndsBetweenFrames ==
    [][\A c \in Conns : RecvTaskEnd(c) => ~InSendMessage(c)]_vars

\* C30: an inbound frame whose type is a server-to-client kind has no effect: the
\* step that reads it writes nothing to the message store or to the presence
\* store, hands no event to any connection, and leaves the connection running,
\* awaiting its next frame, with the registry as it is.
C30_ServerKindIgnored ==
    [][\A c \in Conns :
          obs'[c].ignored = obs[c].ignored + 1
              => /\ recvd' = recvd
                 /\ <<messages, message_reads, message_views, viewed_at,
                      saved_messages, chat_members, chat_rooms>>' =
                    <<messages, message_reads, message_views, viewed_at,
                      saved_messages, chat_members, chat_rooms>>
                 /\ <<presence, typing, unread>>' = <<presence, typing, unread>>
                 /\ connections' = connections
                 /\ pc'[c] = "running" /\ hpc'[c] = "recv"]_vars

\* C30 witness: a connection whose user is a member of a room with a message
\* has read a frame of a server-to-client kind and is still running, its
\* receive task awaiting the next frame.
C30_Witness ==
    \E c \in Conns :
        /\ obs[c].ignored > 0
        /\ pc[c] = "running" /\ hpc[c] = "recv"
        /\ messages # <<>>
        /\ recvd[c] # <<>>

\* The time of the tick that started the sweeper's last cycle.
LastTick == ticker - SweepInterval

\* The message expired before the last cycle of the sweeper began.
DueAtLastTick(m) == messages[m].expires_at # 0 /\ messages[m].expires_at < LastTick

\* A step in which a query of cleanup_expired_messages fails.
MessagePassFails == SwSelectFail \/ \E m \in MsgIds : SwMsgUpdateFail(m)

\* A step in which a query of cleanup_expired_media fails.
MediaPassFails == SwMediaSelectFail \/ SwMediaRowFail

\* C21: the sweeper's loop never ends on an error: (a) the sweeper task never
\* stops; (b) when a query of the expired-message pass fails the pass is over and
\* the expired-media pass of the same cycle is what runs next; (c) when a query
\* of the expired-media pass fails the sweeper waits for its next tick, which
\* stays scheduled; (d) the SELECT of a cycle takes every message that is expired
\* and not soft-deleted, the rows a failed pass left behind included.
C21_Survives == swpc # "stopped"
C21_OtherPassRuns ==
    MessagePassFails => swpc' = "msgs" /\ swq' = {} /\ media' = media
C21_NextCycle ==
    MediaPassFails => swpc' = "sleep" /\ ticker' = ticker
C21_SelectedAgain ==
    SwTick => \A m \in 1..Len(messages) :
                 (messages[m].expires_at # 0 /\ messages[m].expires_at < now
                  /\ ~messages[m].deleted) => m \in swq'
C21_SweeperSurvivesErrors ==
    /\ [](C21_Survives)
    /\ [][C21_OtherPassRuns /\ C21_NextCycle /\ C21_SelectedAgain]_vars

\* C21 witness: a cycle whose expired-message pass failed is over: a message
\* that was due at the cycle's tick is not soft-deleted, the expired-media pass
\* of that cycle has deleted the expired media row, and the sweeper is asleep
\* until its next tick.
C21_Witness ==
    /\ SweeperAsleep
    /\ media = {}
    /\ \E m \in 1..Len(messages) : DueAtLastTick(m) /\ ~messages[m].deleted

\* C26: a failing delete of a media object never blocks the transition in the
\* database and never ends a pass: with the queries succeeding, whenever a cycle
\* is over every message that was due at its tick is soft-deleted and every media
\* row that was due at its tick is deleted, whatever the media store did.
C26_MediaFailureNeverBlocks ==
    SweeperAsleep =>
        /\ \A m \in 1..Len(messages) : DueAtLastTick(m) => messages[m].deleted
        /\ \A row \in media : ~(row.expires_at # 0 /\ row.expires_at < LastTick)

\* C26 witness: a cycle is over in which both deletes failed: a message with
\* media at an S3 URL is soft-deleted while its object is still in the media
\* store, and the expired media row is deleted while its object is still there.
C26_Witness ==
    /\ SweeperAsleep
    /\ media = {}
    /\ <<"m1">> \in s3
    /\ \E m \in 1..Len(messages) :
          /\ messages[m].deleted
          /\ extract_s3_key(messages[m].media_url) # {}
          /\ ObjectOf(messages[m].media_url) \in s3

\* C24: for every message inserted by send_message and every member of the room,
\* the fan-out turn that serves the member does exactly one of two things: it
\* hands the new_message event to a subscribed connection of the member, or it
\* goes on to increment the member's unread counter of the room; never both,
\* never neither.
C24_DeliveredOrCounted ==
    [][\A c \in Conns, u \in Users :
          SmFanout(c, u)
              => LET ev == NewMessageEvent(h[c].m)
                     delivered == \E d \in ConnsOf(u) :
                                     rx[d] # 0 /\ recvd'[d] = Append(recvd[d], ev)
                     counted == hpc'[c] = "sm_incr" /\ h'[c].member = u
                 IN  delivered # counted]_vars

\* What does hold: no turn does both, and a member without a registry entry is
\* always counted.
C24_NeverBoth ==
    [][\A c \in Conns, u \in Users :
          SmFanout(c, u)
              => /\ ~(recvd' # recvd /\ hpc'[c] = "sm_incr")
                 /\ connections[u] = 0 => hpc'[c] = "sm_incr"]_vars

\* Connection c is running and its Receiver is behind by more than the channel
\* retains.
Lagging(c) == pc[c] = "running" /\ Pending(c) > ChannelCapacity

\* C25: a connection whose forwarding loop has fallen behind its channel by more
\* than the channel's capacity only loses the overwritten events: no step tears
\* it down or removes its user's registry entry.
C25_LaggingStaysOpen ==
    [][\A c \in Conns :
          Lagging(c) => /\ pc'[c] = "running"
                        /\ connections'[connUser[c]] = connections[connUser[c]]]_vars

\* What does hold: a connection that is behind by no more than the capacity is
\* not torn down, and its send task takes the events in the order they were sent.
C25_SlowWithinCapacityStaysOpen ==
    [][\A c \in Conns :
          (pc[c] = "running" /\ Pending(c) <= ChannelCapacity)
              => /\ pc'[c] = "running"
                 /\ forwarded'[c] \in {forwarded[c], forwarded[c] + 1}]_vars

\* C23: pushing an event to a member's channel never blocks and never aborts the
\* producing handler, whatever the state of the channel's subscribers: (a) a
\* fan-out that has members left to serve can always take its next turn; (b) the
\* turn of a member with a registry entry hands the event to every Receiver
\* subscribed to the member's channel, lagging ones included, and leaves the
\* handler running with the remaining members still to serve.
C23_NeverBlocked ==
    \A c \in Conns :
        (pc[c] = "running" /\ hpc[c] = "sm_fanout")
            => \A u \in h[c].todo : ENABLED SmFanout(c, u)
C23_Turn ==
    \A c \in Conns, u \in Users :
        (SmFanout(c, u) /\ connections[u] # 0)
            => /\ \A d \in Conns :
                     rx[d] = connections[u]
                         => recvd'[d] = Append(recvd[d], NewMessageEvent(h[c].m))
               /\ pc'[c] = "running"
               /\ IF h[c].todo = {u}
                  THEN hpc'[c] = "recv"
                  ELSE hpc'[c] = "sm_fanout" /\ h'[c].todo = h[c].todo \ {u}
C23_SendNeverBlocksProducer == [](C23_NeverBlocked) /\ [][C23_Turn]_vars

\* C23 witness: a fan-out has ended after it handed its event to a Receiver that
\* was already behind by the channel's capacity: the sender's handler awaits its
\* next frame and a running connection lags with the event of the latest message
\* as the last one handed to it.
C23_Witness ==
    \E c, d \in Conns :
        /\ pc[c] = "running" /\ hpc[c] = "recv"
        /\ messages # <<>>
        /\ messages[Len(messages)].sender = connUser[c]
        /\ Lagging(d)
        /\ recvd[d][Len(recvd[d])] = NewMessageEvent(Len(messages))

\* C27: the lock of the presence store is held only for the duration of one call
\* of the presence store: (a) the task that holds it is at a call of the presence
\* store, not in a query of the message store, not sending to a channel, not
\* waiting for another lock; (b) the holder can always make its call, so no task
\* waits for the lock for ever; (c) the step in which the holder's call returns
\* frees the lock.
C27_HolderAtCall == redis_lock # 0 => AtPresenceCall(redis_lock)
C27_HolderProceeds ==
    redis_lock # 0 =>
        ENABLED (LockedCall(redis_lock) \/ LockedTyping(redis_lock))
C27_FreedOnReturn ==
    \A c \in Conns :
        (redis_lock = c /\ <<pc[c], hpc[c]>>' # <<pc[c], hpc[c]>>)
            => redis_lock' = 0
C27_LockHeldForOneCall ==
    /\ [](C27_HolderAtCall /\ C27_HolderProceeds)
    /\ [][C27_FreedOnReturn]_vars

\* C27 witness: the teardown of a connection holds the lock for its
\* set_user_offline call while the handler of another connection waits at
\* redis.lock() for its own call.
C27_Witness ==
    \E c, d \in Conns :
        /\ c # d
        /\ redis_lock = c
        /\ pc[d] = "running" /\ hpc[d] \in {"sm_incr", "mr_clear"}
        /\ presence[connUser[c]] = "online"
        /\ pc[c] = "removed"

====
